---- MODULE Spec2Model ----
(***************************************************************************)
(* A model of the GHW loader of wellen (src/src/ghw.rs).                   *)
(*                                                                         *)
(* The loader is a single-threaded streaming parser.  The input stream is  *)
(* the environment: every read takes its token from a small set with \E.   *)
(* The tokens are the decoded items the code reads (a section mark, a type *)
(* entry, a hierarchy record, a delta, a value).  Some parts of the loader *)
(* are modelled on raw bytes: opening the input (is_ghw, read_ghw_header,  *)
(* try_read_directory), read_string_section, the framing of the sections   *)
(* (the marks and the fixed-size section headers), and the loops of the    *)
(* load from the header pass to the tailer (SpecLoad).                     *)
(*                                                                         *)
(* A Rust panic (todo!, unwrap on None, an index out of bounds, a failing  *)
(* debug_assert!, an arithmetic overflow in a build with overflow checks)  *)
(* aborts the load: result.kind = "panic".  An Err(..) returned through ?  *)
(* is result.kind = "err".  debug_assert! and the overflow checks exist    *)
(* only in a debug build, so the build flavour is part of the state.       *)
(***************************************************************************)
EXTENDS Integers, Sequences, FiniteSets, TLC

VARIABLES
    debug,                      \* TRUE: debug build (debug_assert!, overflow checks)
    bytes,                      \* the bytes of the input (read_from_bytes)
    seekable,                   \* FALSE: every seek on the input fails (a pipe)
    cursor,                     \* stream position of the input
    header,                     \* Option<HeaderData> returned by read_ghw_header
    answers,                    \* what the calls of is_ghw returned, in order
    string_num,                 \* read_string_section: entries still to read
    string_table,               \* read_string_section: table under construction
    buf,                        \* read_string_section: the byte buffer
    pc,                         \* where the loader is
    result,                     \* outcome of the load so far
    tables,                     \* GhwTables: [strings, types]
    consumed,                   \* header sections read so far, in stream order
    input,                      \* header sections of the stream not yet read
    signals,                    \* Vec<SignalInfo> returned by read_hierarchy
    hb,                         \* HierarchyBuilder
    type_num,                   \* read_type_section: announced number of types
    table,                      \* read_type_section: table under construction
    entry,                      \* read_type_section: the entry the loop read last
    slots,                      \* read_hierarchy_section: Vec<Option<SignalInfo>>
    num_declared_vars,          \* read_hierarchy_section: counter
    expected_num_declared_vars, \* read_hierarchy_section: announced maximum
    start_time,                 \* read_snapshot_section / read_cycle_section
    pos_signal_index,           \* read_cycle_signals: the cursor
    delta,                      \* read_cycle_signals: the delta read last
    time_delta,                 \* read_cycle_section: the time delta read last
    stdout,                     \* lines println! writes in the signal pass
    encoder,                    \* samples held by wavemem::Encoder
    range_self,                 \* IntRange methods: self
    range_other,                \* IntRange::is_subset_of: other
    returned,                   \* IntRange methods: what the call returned
    record                      \* read_hierarchy_var: the record it reads and the
                                \* handles of the stream not yet read

vars == <<debug, bytes, seekable, cursor, header, answers, string_num, string_table, buf,
          pc, result, tables, consumed, input, signals, hb, type_num, table,
          entry, slots, num_declared_vars, expected_num_declared_vars,
          start_time, pos_signal_index, delta, time_delta, stdout, encoder,
          range_self, range_other, returned, record>>

fileVars   == <<bytes, seekable, cursor, header, answers>>
stringVars == <<string_num, string_table, buf>>
headerVars == <<tables, consumed, input, signals>>
typeVars   == <<type_num, table, entry>>
hierVars   == <<hb, slots, num_declared_vars, expected_num_declared_vars>>
signalVars == <<start_time, pos_signal_index, delta, time_delta, stdout, encoder>>
rangeVars  == <<range_self, range_other, returned>>

(***************************************************************************)
(* Bounds of the model.                                                    *)
(***************************************************************************)
MaxTypes    == 3    \* entries of a type section
MaxSignalId == 2    \* largest max_signal_id announced by a hierarchy section
MaxRecords  == 2    \* records of a hierarchy section
MaxVars     == 1    \* largest announced declared-var count
MaxOut      == 4    \* lines printed during the signal pass
MaxSections == 4    \* sections read in the header pass before EOH

(***************************************************************************)
(* Outcomes.                                                               *)
(***************************************************************************)
Running == [kind |-> "running", what |-> "", where |-> ""]
Success == [kind |-> "ok", what |-> "", where |-> ""]
Err(what, where) == [kind |-> "err", what |-> what, where |-> where]
Panic(what, where) == [kind |-> "panic", what |-> what, where |-> where]

\* Option<T>: None is <<>>, Some(v) is <<v>>
None == <<>>
Some(v) == <<v>>

Max2(a, b) == IF a >= b THEN a ELSE b

(***************************************************************************)
(* IntRange(dir, left, right)                                              *)
(***************************************************************************)
I32Max == 2147483647
I32Min == (-2147483647) - 1

IntRange(dir, l, r) == <<dir, l, r>>

\* IntRange::range is the half-open start..end; RangeLast is end - 1 (the
\* model's integers cannot hold i32::MAX + 1)
RangeStart(rg) == IF rg[1] = "To" THEN rg[2] ELSE rg[3]
RangeLast(rg)  == IF rg[1] = "To" THEN rg[3] ELSE rg[2]

IntRangeLen(rg) == IF rg[1] = "To" THEN rg[3] - rg[2] + 1 ELSE rg[2] - rg[3] + 1

FromI32Option(opt) == IF opt = None THEN IntRange("To", I32Min, I32Max) ELSE opt[1]

\* self_range.start >= other_range.start && self_range.end <= other_range.end
IsSubsetOf(self, other) ==
    /\ RangeStart(self) >= RangeStart(other)
    /\ RangeLast(self) <= RangeLast(other)

(***************************************************************************)
(* The string table.  A string is the tuple of its characters; string id i *)
(* is entry i + 1 of the tuple that models Vec<String>.                    *)
(***************************************************************************)
Q(c) == <<"'", c, "'">>

\* the table read_string_section returns for the dictionary of a small design
StdStrings ==
    << <<"<", "a", "n", "o", "n", ">">>,
       Q("U"), Q("X"), Q("0"), Q("1"), Q("Z"), Q("W"), Q("L"), Q("H"), Q("-"),
       <<"f">>, <<"t">>, <<"c", "l", "k">> >>

\* the same table from a dictionary that writes 'U' between brackets
BracketStrings == [StdStrings EXCEPT ![2] = <<"(", "U", ")">>]

StdLogicLits == <<1, 2, 3, 4, 5, 6, 7, 8, 9>>
BoolLits     == <<10, 11>>
NameIds      == {12}

\* wavemem::bit_char_to_num: ['0', '1', 'x', 'z', 'h', 'u', 'w', 'l', '-']
BitCharToNum(c) ==
    CASE c = "0" -> Some(0)
      [] c = "1" -> Some(1)
      [] c \in {"x", "X"} -> Some(2)
      [] c \in {"z", "Z"} -> Some(3)
      [] c \in {"h", "H"} -> Some(4)
      [] c \in {"u", "U"} -> Some(5)
      [] c \in {"w", "W"} -> Some(6)
      [] c \in {"l", "L"} -> Some(7)
      [] c = "-" -> Some(8)
      [] OTHER -> None

\* GhwTables::get_str: &self.strings[string_id.0]
StrInBounds(strings, id) == id + 1 <= Len(strings)
GetStr(strings, id) == strings[id + 1]

(***************************************************************************)
(* VhdlType                                                                *)
(***************************************************************************)
NineValueBit(name, lut)        == <<"NineValueBit", name, lut>>
NineValueVec(name, lut, range) == <<"NineValueVec", name, lut, range>>
TypeAlias(name, base)          == <<"TypeAlias", name, base>>
TI32(name, optRange)           == <<"I32", name, optRange>>
TI64(name, optRange)           == <<"I64", name, optRange>>
TF64(name, optRange)           == <<"F64", name, optRange>>
TRecord(name, fields)          == <<"Record", name, fields>>
TEnum(name, lits)              == <<"Enum", name, lits>>
TArray(name, elem, optRange)   == <<"Array", name, elem, optRange>>

IsAlias(t) == t[1] = "TypeAlias"

\* TypeId(n).index() is n - 1; entry n of the tuple that models Vec<VhdlType>
TypeInBounds(types, id) == id <= Len(types)

\* VhdlType::int_range
TypeIntRange(t) ==
    CASE t[1] = "NineValueBit" -> Some(IntRange("To", 0, 8))
      [] t[1] \in {"I32", "I64"} -> t[3]
      [] t[1] = "Enum" -> Some(IntRange("To", 0, Len(t[3])))
      [] OTHER -> None

\* lookup_concrete_type: [res, tpe]
LookupConcreteType(dbg, types, id) ==
    IF ~TypeInBounds(types, id)
    THEN [res |-> Panic("index", "lookup_concrete_type"), tpe |-> <<>>]
    ELSE IF ~IsAlias(types[id])
    THEN [res |-> Success, tpe |-> types[id]]
    ELSE LET base_id == types[id][3] IN
         IF ~TypeInBounds(types, base_id)
         THEN [res |-> Panic("index", "lookup_concrete_type"), tpe |-> <<>>]
         ELSE IF dbg /\ IsAlias(types[base_id])
         THEN [res |-> Panic("debug_assert", "lookup_concrete_type"), tpe |-> <<>>]
         ELSE [res |-> Success, tpe |-> types[base_id]]

\* lookup_concrete_type_id: [res, id]
LookupConcreteTypeId(dbg, types, id) ==
    IF ~TypeInBounds(types, id)
    THEN [res |-> Panic("index", "lookup_concrete_type_id"), id |-> 0]
    ELSE IF ~IsAlias(types[id])
    THEN [res |-> Success, id |-> id]
    ELSE LET base_id == types[id][3] IN
         IF dbg /\ ~TypeInBounds(types, base_id)
         THEN [res |-> Panic("index", "lookup_concrete_type_id"), id |-> 0]
         ELSE IF dbg /\ IsAlias(types[base_id])
         THEN [res |-> Panic("debug_assert", "lookup_concrete_type_id"), id |-> 0]
         ELSE [res |-> Success, id |-> base_id]

(***************************************************************************)
(* Nine-value detection and the constructors of VhdlType.  Each returns    *)
(* [res, tpe]: res is Success and tpe the type, or res is the panic.       *)
(***************************************************************************)
Built(t)  == [res |-> Success, tpe |-> t]
Abort(r)  == [res |-> r, tpe |-> <<>>]

\* the loop body of try_parse_nine_value_bit from literal ii on:
\* [res, lut] with lut = None when the enum is no nine-value bit
RECURSIVE NineValueLoop(_, _, _, _, _)
NineValueLoop(strings, literals, ii, lut, out_covered) ==
    IF ii > Len(literals) THEN [res |-> Success, lut |-> Some(lut)]
    ELSE IF ~StrInBounds(strings, literals[ii])
    THEN [res |-> Panic("index", "get_str"), lut |-> None]
    ELSE LET lit == GetStr(strings, literals[ii]) IN
         IF Len(lit) \notin {1, 3} THEN [res |-> Success, lut |-> None]
         ELSE LET cc  == IF Len(lit) = 1 THEN lit[1] ELSE lit[2]
                  out == BitCharToNum(cc)
              IN  IF out = None THEN [res |-> Success, lut |-> None]
                  ELSE IF out[1] \in out_covered
                       THEN [res |-> Success, lut |-> None]
                       ELSE NineValueLoop(strings, literals, ii + 1,
                                          Append(lut, out[1]),
                                          out_covered \cup {out[1]})

TryParseNineValueBit(strings, name, literals) ==
    IF Len(literals) # 9 THEN [res |-> Success, lut |-> None]
    ELSE NineValueLoop(strings, literals, 1, <<>>, {})

FromEnum(strings, name, literals) ==
    LET nine == TryParseNineValueBit(strings, name, literals) IN
    IF nine.res # Success THEN Abort(nine.res)
    ELSE IF nine.lut # None THEN Built(NineValueBit(name, nine.lut[1]))
    ELSE Built(TEnum(name, literals))

FromArray(dbg, name, types, element_tpe, index) ==
    LET el == LookupConcreteTypeId(dbg, types, element_tpe) IN
    IF el.res # Success THEN Abort(el.res)
    ELSE LET ix == LookupConcreteType(dbg, types, index) IN
    IF ix.res # Success THEN Abort(ix.res)
    ELSE LET index_range == TypeIntRange(ix.tpe) IN
    IF ~TypeInBounds(types, el.id) THEN Abort(Panic("index", "from_array"))
    ELSE IF types[el.id][1] = "NineValueBit" /\ index_range # None
         THEN Built(NineValueVec(name, types[el.id][3], index_range[1]))
         ELSE Built(TArray(name, el.id, index_range))

\* fields hold the ids already resolved by lookup_concrete_type_id
FromRecord(dbg, name, types, fields) ==
    IF dbg /\ \E i \in 1..Len(fields) : ~TypeInBounds(types, fields[i][2])
    THEN Abort(Panic("index", "from_record"))
    ELSE IF dbg /\ \E i \in 1..Len(fields) : IsAlias(types[fields[i][2]])
    THEN Abort(Panic("debug_assert", "from_record"))
    ELSE Built(TRecord(name, fields))

FromSubtypeArray(dbg, name, types, base, int_range) ==
    LET bt == LookupConcreteType(dbg, types, base) IN
    IF bt.res # Success THEN Abort(bt.res)
    ELSE IF bt.tpe[1] = "Array" THEN Abort(Panic("todo", "from_subtype_array"))
    ELSE IF bt.tpe[1] = "NineValueVec"
    THEN IF dbg /\ ~IsSubsetOf(int_range, bt.tpe[4])
         THEN Abort(Panic("debug_assert", "from_subtype_array"))
         ELSE Built(NineValueVec(name, bt.tpe[3], int_range))
    ELSE Abort(Panic("todo", "from_subtype_array"))

FromSubtypeScalar(dbg, name, types, base, int_range) ==
    LET bt == LookupConcreteType(dbg, types, base) IN
    IF bt.res # Success THEN Abort(bt.res)
    ELSE LET start == RangeStart(int_range)
             end   == RangeLast(int_range) + 1
         IN
    CASE bt.tpe[1] = "Enum" ->
           LET n == Len(bt.tpe[3]) IN
           IF dbg /\ ~(start >= 0 /\ start <= n /\ end >= 0 /\ end <= n)
           THEN Abort(Panic("debug_assert", "from_subtype_scalar"))
           ELSE IF start = 0 /\ end = n
           THEN Built(TypeAlias(name, base))
           ELSE Abort(Panic("todo", "from_subtype_scalar"))
      [] bt.tpe[1] = "NineValueBit" ->
           IF start = 0 /\ end = 9
           THEN Built(TypeAlias(name, base))
           ELSE Abort(Panic("todo", "from_subtype_scalar"))
      [] bt.tpe[1] = "I32" ->
           IF dbg /\ ~IsSubsetOf(int_range, FromI32Option(bt.tpe[3]))
           THEN Abort(Panic("debug_assert", "from_subtype_scalar"))
           ELSE Built(TI32(name, Some(int_range)))
      [] OTHER -> Abort(Panic("todo", "from_subtype_scalar"))

(***************************************************************************)
(* read_range.  A range token is what the stream holds: the kind byte      *)
(* (rkind, with bit 7 as dir) and the two endpoints.                       *)
(***************************************************************************)
RangeTok(rkind, dir, l, r) == [rkind |-> rkind, dir |-> dir, l |-> l, r |-> r]

\* [res, range]
ReadRange(tok) ==
    CASE tok.rkind = "Invalid" ->
           [res |-> Err("FailedToParseGhdlRtik", "read_range"), range |-> <<>>]
      [] tok.rkind \in {"TypeE8", "TypeB2", "TypeI32", "TypeP32", "TypeI64", "TypeP64"} ->
           [res |-> Success, range |-> IntRange(tok.dir, tok.l, tok.r)]
      [] tok.rkind = "TypeF64" ->
           [res |-> Panic("todo", "read_range"), range |-> <<>>]
      [] OTHER ->
           [res |-> Err("UnexpectedType", "read_range"), range |-> <<>>]

(***************************************************************************)
(* One iteration of the loop of read_type_section.  A type entry token is  *)
(* the kind byte, the name and the payload the kind asks for; type ids are *)
(* the raw varints, so 0 is a possible value (read_type_id unwraps it).    *)
(***************************************************************************)
TypeEntry(kind, name, lits, base, range, elem, dims, fields) ==
    [kind |-> kind, name |-> name, lits |-> lits, base |-> base, range |-> range,
     elem |-> elem, dims |-> dims, fields |-> fields]

NoRange == RangeTok("TypeI32", "To", 0, 0)

EnumEntry(name, lits)         == TypeEntry("TypeE8", name, lits, 0, NoRange, 0, <<>>, <<>>)
PlainEntry(kind, name)        == TypeEntry(kind, name, <<>>, 0, NoRange, 0, <<>>, <<>>)
SubtypeEntry(kind, name, b, r) == TypeEntry(kind, name, <<>>, b, r, 0, <<>>, <<>>)
ArrayEntry(name, el, dims)    == TypeEntry("TypeArray", name, <<>>, 0, NoRange, el, dims, <<>>)
RecordEntry(name, fields)     == TypeEntry("TypeRecord", name, <<>>, 0, NoRange, 0, <<>>, fields)

\* a field loop that keeps the ids as they were read
ResolveFieldsUnchecked(dbg, types, raw, i, acc) ==
    IF \E k \in 1..Len(raw) : raw[k][2] = 0
    THEN [res |-> Panic("unwrap", "read_type_id"), fields |-> <<>>]
    ELSE [res |-> Success, fields |-> raw]

\* the field loop of the TypeRecord arm: [res, fields]
RECURSIVE ResolveFields(_, _, _, _, _)
ResolveFields(dbg, types, raw, i, acc) ==
    IF i > Len(raw) THEN [res |-> Success, fields |-> acc]
    ELSE IF raw[i][2] = 0
    THEN [res |-> Panic("unwrap", "read_type_id"), fields |-> <<>>]
    ELSE LET f == LookupConcreteTypeId(dbg, types, raw[i][2]) IN
         IF f.res # Success THEN [res |-> f.res, fields |-> <<>>]
         ELSE ResolveFields(dbg, types, raw, i + 1, Append(acc, <<raw[i][1], f.id>>))

\* [res, tpe]
TypeStep(dbg, strings, types, e) ==
    CASE e.kind = "Invalid" -> Abort(Err("FailedToParseGhdlRtik", "read_type_section"))
      [] e.kind \in {"TypeE8", "TypeB2"} -> FromEnum(strings, e.name, e.lits)
      [] e.kind = "TypeI32" -> Built(TI32(e.name, None))
      [] e.kind = "TypeI64" -> Built(TI64(e.name, None))
      [] e.kind = "TypeF64" -> Built(TF64(e.name, None))
      [] e.kind = "SubtypeScalar" ->
           IF e.base = 0 THEN Abort(Panic("unwrap", "read_type_id"))
           ELSE LET rg == ReadRange(e.range) IN
                IF rg.res # Success THEN Abort(rg.res)
                ELSE FromSubtypeScalar(dbg, e.name, types, e.base, rg.range)
      [] e.kind = "TypeArray" ->
           IF e.elem = 0 \/ \E i \in 1..Len(e.dims) : e.dims[i] = 0
           THEN Abort(Panic("unwrap", "read_type_id"))
           ELSE IF dbg /\ e.dims = <<>>
           THEN Abort(Panic("debug_assert", "read_type_section"))
           ELSE IF Len(e.dims) > 1
           THEN Abort(Panic("todo", "read_type_section"))
           ELSE IF e.dims = <<>>
           THEN Abort(Panic("index", "read_type_section"))
           ELSE FromArray(dbg, e.name, types, e.elem, e.dims[1])
      [] e.kind = "SubtypeArray" ->
           IF e.base = 0 THEN Abort(Panic("unwrap", "read_type_id"))
           ELSE LET rg == ReadRange(e.range) IN
                IF rg.res # Success THEN Abort(rg.res)
                ELSE FromSubtypeArray(dbg, e.name, types, e.base, rg.range)
      [] e.kind = "TypeRecord" ->
           LET fs == ResolveFields(dbg, types, e.fields, 1, <<>>) IN
           IF fs.res # Success THEN Abort(fs.res)
           ELSE FromRecord(dbg, e.name, types, fs.fields)
      [] OTHER -> Abort(Panic("todo", "read_type_section"))

\* the whole entry loop over a given list of entries: [res, table]
RECURSIVE TypeLoop(_, _, _, _)
TypeLoop(dbg, strings, types, entries) ==
    IF entries = <<>> THEN [res |-> Success, table |-> types]
    ELSE LET r == TypeStep(dbg, strings, types, Head(entries)) IN
         IF r.res # Success THEN [res |-> r.res, table |-> types]
         ELSE TypeLoop(dbg, strings, Append(types, r.tpe), Tail(entries))

(***************************************************************************)
(* The type entries the stream may hold when the table has n entries.      *)
(***************************************************************************)
\* 0 is unwrapped by read_type_id, n + 1 is the entry being read
TypeIdsAt(n) == 0..(n + 1)

RangeToks ==
    { RangeTok("TypeI32", "To", 0, 1), RangeTok("TypeI32", "To", 0, 3),
      RangeTok("TypeE8", "To", 0, 8), RangeTok("TypeI32", "Downto", 9, 0),
      RangeTok("TypeF64", "To", 0, 0), RangeTok("TypeArray", "To", 0, 0),
      RangeTok("Invalid", "To", 0, 0) }

TypeEntriesAt(n) ==
    LET ids == TypeIdsAt(n) IN
    UNION { { EnumEntry(nm, StdLogicLits), EnumEntry(nm, BoolLits),
              PlainEntry("TypeI32", nm), PlainEntry("TypeF64", nm),
              PlainEntry("TypeP32", nm), PlainEntry("Invalid", nm),
              ArrayEntry(nm, 1, <<>>), ArrayEntry(nm, 1, <<1, 1>>),
              RecordEntry(nm, <<>>) }
            \cup { SubtypeEntry(k, nm, b, r) :
                     k \in {"SubtypeScalar", "SubtypeArray"}, b \in ids, r \in RangeToks }
            \cup { ArrayEntry(nm, el, <<d>>) : el \in ids, d \in ids }
            \cup { RecordEntry(nm, <<<<nm, t>>>>) : t \in ids }
            \cup { RecordEntry(nm, <<<<nm, 1>>, <<nm, t>>>>) : t \in 1..n }
          : nm \in NameIds }

(***************************************************************************)
(* State shared by the specifications.                                     *)
(***************************************************************************)
\* GhwTables::default()
EmptyTables == [strings |-> <<>>, types |-> <<>>]

\* HierarchyBuilder::new: no scope open, nothing added
EmptyHb == [stack |-> <<>>, items |-> <<>>]

\* a read that fails ends the load with the error or the panic
Stop(r) ==
    /\ pc' = "stop"
    /\ result' = r

\* the locals of the functions that are not running
IdleFile   == /\ bytes = <<>> /\ seekable = TRUE /\ cursor = 0
              /\ header = <<>> /\ answers = <<>>
IdleStrings == string_num = 0 /\ string_table = <<>> /\ buf = <<>>
IdleHeader == tables = EmptyTables /\ consumed = <<>> /\ input = <<>> /\ signals = <<>>
IdleTypes  == type_num = 0 /\ table = <<>> /\ entry = <<>>
IdleHier   == /\ hb = EmptyHb /\ slots = <<>>
              /\ num_declared_vars = 0 /\ expected_num_declared_vars = 0
IdleRecord == record = <<>>
IdleRanges == range_self = <<>> /\ range_other = <<>> /\ returned = <<>>
IdleSignal == /\ start_time = 0 /\ pos_signal_index = 0 /\ delta = 0 /\ time_delta = 0
              /\ stdout = <<>> /\ encoder = <<>>

\* read_exact on an input that has ended: Err(Io) from any read
InputEnds ==
    /\ pc \notin {"stop", "done"}
    /\ Stop(Err("Io", "read_exact"))
    /\ UNCHANGED <<debug, fileVars, stringVars, headerVars, typeVars, hierVars, signalVars>>
    /\ UNCHANGED <<rangeVars, record>>

(***************************************************************************)
(* read_type_section, entry by entry.                                      *)
(***************************************************************************)
\* the 8 header bytes: check_header_zeros, then the count through read_u32
ReadTypeHeader ==
    /\ pc = "type_header"
    /\ \E zeros \in BOOLEAN, n \in (-1)..MaxTypes :
         IF ~zeros THEN Stop(Err("FailedToParseSection", "type")) /\ UNCHANGED type_num
         ELSE IF n < 0
         THEN Stop(Err("ExpectedPositiveInteger", "read_u32")) /\ UNCHANGED type_num
         ELSE pc' = "type_entry" /\ type_num' = n /\ UNCHANGED result
    /\ table' = <<>>
    /\ UNCHANGED <<debug, fileVars, stringVars, headerVars, entry, hierVars, signalVars>>
    /\ UNCHANGED <<rangeVars, record>>

ReadTypeEntry ==
    /\ pc = "type_entry"
    /\ Len(table) < type_num
    /\ \E e \in TypeEntriesAt(Len(table)) :
         LET r == TypeStep(debug, tables.strings, table, e) IN
         /\ entry' = e
         /\ IF r.res = Success
            THEN table' = Append(table, r.tpe) /\ UNCHANGED <<pc, result>>
            ELSE Stop(r.res) /\ UNCHANGED table
    /\ UNCHANGED <<debug, fileVars, stringVars, headerVars, type_num, hierVars, signalVars>>
    /\ UNCHANGED <<rangeVars, record>>

\* the byte after the last entry, then the TYP arm of read_hierarchy
EndTypeSection ==
    /\ pc = "type_entry"
    /\ Len(table) = type_num
    /\ \E last \in {0, 1} :
         IF last # 0
         THEN Stop(Err("FailedToParseSection", "type")) /\ UNCHANGED tables
         ELSE IF debug /\ tables.types # <<>>
         THEN Stop(Panic("debug_assert", "read_hierarchy")) /\ UNCHANGED tables
         ELSE /\ tables' = [tables EXCEPT !.types = table]
              /\ pc' = "header"
              /\ UNCHANGED result
    /\ UNCHANGED <<debug, fileVars, stringVars, consumed, input, signals, typeVars, hierVars, signalVars>>
    /\ UNCHANGED <<rangeVars, record>>

\* after the TYP mark, with the string table read before it or not
InitTypes ==
    /\ debug \in BOOLEAN
    /\ pc = "type_header"
    /\ result = Running
    /\ tables \in {[strings |-> st, types |-> <<>>] : st \in {<<>>, StdStrings, BracketStrings}}
    /\ consumed = <<>> /\ input = <<>> /\ signals = <<>>
    /\ IdleFile /\ IdleStrings /\ IdleTypes /\ IdleHier /\ IdleSignal /\ IdleRanges /\ IdleRecord

NextTypes == ReadTypeHeader \/ ReadTypeEntry \/ EndTypeSection \/ InputEnds

SpecTypes == InitTypes /\ [][NextTypes]_vars

(***************************************************************************)
(* The hierarchy section.                                                  *)
(***************************************************************************)
SignalInfo(start_id, end_id, tpe) == [start_id |-> start_id, end_id |-> end_id, tpe |-> tpe]

\* SignalInfo::len
SignalInfoLen(sig) == sig.end_id - sig.start_id + 1

\* signals.resize(max_signal_id + 1, None): index i is entry i + 1
NewSlots(max_signal_id) == [i \in 1..(max_signal_id + 1) |-> None]

\* signals.into_iter().flatten().collect()
RECURSIVE Flatten(_)
Flatten(sl) ==
    IF sl = <<>> THEN <<>>
    ELSE IF Head(sl) = None THEN Flatten(Tail(sl))
    ELSE <<Head(sl)[1]>> \o Flatten(Tail(sl))

\* read_signal_id with the slot stored one index too low
ReadSignalIdBelow(index, sl) ==
    IF index >= Len(sl)
    THEN [res |-> Err("FailedToParseSection", "hierarchy"), slots |-> sl, id |-> 0]
    ELSE IF index = 0
    THEN [res |-> Panic("unwrap", "read_signal_id"), slots |-> sl, id |-> 0]
    ELSE [res |-> Success, id |-> index,
          slots |-> IF sl[index] = None
                    THEN [sl EXCEPT ![index] = Some(SignalInfo(index, index, "U8"))]
                    ELSE sl]
\* read_signal_id on the varint index: [res, slots, id]
ReadSignalId(index, sl) ==
    IF index >= Len(sl)
    THEN [res |-> Err("FailedToParseSection", "hierarchy"), slots |-> sl, id |-> 0]
    ELSE IF index = 0
    THEN [res |-> Panic("unwrap", "read_signal_id"), slots |-> sl, id |-> 0]
    ELSE [res |-> Success, id |-> index,
          slots |-> IF sl[index + 1] = None
                    THEN [sl EXCEPT ![index + 1] = Some(SignalInfo(index, index, "U8"))]
                    ELSE sl]

\* HierarchyBuilder: the scopes that are open, and what was added, in order
HbAddScope(h, name, kind) ==
    [h EXCEPT !.stack = Append(@, name),
              !.items = Append(@, <<"scope", name, kind, Len(h.stack)>>)]

\* pop_scope that leaves the scope open
HbPopScopeNever(h) == h

HbPopScope(h) == [h EXCEPT !.stack = SubSeq(@, 1, Len(@) - 1)]

HbAddVar(h, name, var_tpe, dir, bits, index, signal_ref, enum_type) ==
    [h EXCEPT !.items = Append(@, <<"var", name, var_tpe, dir, bits, index,
                                    signal_ref, enum_type, Len(h.stack)>>)]

VarKinds   == {"Signal", "PortIn", "PortOut", "PortInOut", "Buffer", "Linkage"}
ScopeKinds == {"Block", "GenerateIf", "GenerateFor", "Instance", "Generic", "Package"}

ConvertVarKind(kind) ==
    CASE kind = "Signal"    -> <<"Wire", "Implicit">>
      [] kind = "PortIn"    -> <<"Port", "Input">>
      [] kind = "PortOut"   -> <<"Port", "Output">>
      [] kind = "PortInOut" -> <<"Port", "InOut">>
      [] kind = "Buffer"    -> <<"Wire", "Buffer">>
      [] kind = "Linkage"   -> <<"Wire", "Linkage">>

ConvertScopeType(kind) ==
    CASE kind = "Block"       -> "VhdlBlock"
      [] kind = "GenerateIf"  -> "VhdlIfGenerate"
      [] kind = "GenerateFor" -> "VhdlForGenerate"
      [] kind = "Instance"    -> "Interface"
      [] kind = "Package"     -> "VhdlPackage"
      [] kind = "Generic"     -> "GhwGeneric"
      [] kind = "Process"     -> "VhdlProcess"

\* IntRange::as_var_index
AsVarIndex(rg) == <<rg[2], rg[3]>>

\* what add_var and its helpers return: the rest of the stream, the slots, the builder
VarOut(r, ids, sl, h) == [res |-> r, ids |-> ids, slots |-> sl, hb |-> h]

\* the loop of the NineValueVec arm; left < 0 stands for a count that
\* range.len() as u32 makes larger than any stream
RECURSIVE ReadSignalIds(_, _, _, _)
ReadSignalIds(ids, sl, left, acc) ==
    IF left = 0 THEN [res |-> Success, ids |-> ids, slots |-> sl, signal_ids |-> acc]
    ELSE IF ids = <<>>
    THEN [res |-> Err("FailedToParsLeb128", "read_signal_id"),
          ids |-> ids, slots |-> sl, signal_ids |-> acc]
    ELSE LET r == ReadSignalId(Head(ids), sl) IN
         IF r.res # Success
         THEN [res |-> r.res, ids |-> Tail(ids), slots |-> sl, signal_ids |-> acc]
         ELSE ReadSignalIds(Tail(ids), r.slots, IF left < 0 THEN left ELSE left - 1,
                            Append(acc, r.id))

\* one leaf that reads one handle (the Enum and NineValueBit arms)
AddLeaf(ids, sl, h, kind, name, enum_type) ==
    IF ids = <<>> THEN VarOut(Err("FailedToParsLeb128", "read_signal_id"), ids, sl, h)
    ELSE LET r == ReadSignalId(Head(ids), sl) IN
         IF r.res # Success THEN VarOut(r.res, Tail(ids), sl, h)
         ELSE VarOut(Success, Tail(ids), r.slots,
                     HbAddVar(h, name, ConvertVarKind(kind)[1], ConvertVarKind(kind)[2],
                              1, None, r.id, enum_type))

RECURSIVE AddVar(_, _, _, _, _, _, _, _)
RECURSIVE AddFields(_, _, _, _, _, _, _, _)

\* add_var
AddVar(dbg, tabs, ids, sl, h, kind, name, type_id) ==
    IF ~TypeInBounds(tabs.types, type_id)
    THEN VarOut(Panic("index", "get_type_and_name"), ids, sl, h)
    ELSE IF ~StrInBounds(tabs.strings, tabs.types[type_id][2])
    THEN VarOut(Panic("index", "get_str"), ids, sl, h)
    ELSE LET lk == LookupConcreteType(dbg, tabs.types, type_id)
             tpe_name == GetStr(tabs.strings, tabs.types[type_id][2])
         IN
    IF lk.res # Success THEN VarOut(lk.res, ids, sl, h)
    ELSE
    CASE lk.tpe[1] = "Enum" ->
           IF \E i \in 1..Len(lk.tpe[3]) : ~StrInBounds(tabs.strings, lk.tpe[3][i])
           THEN VarOut(Panic("index", "get_str"), ids, sl, h)
           ELSE AddLeaf(ids, sl, h, kind, name, Some(tpe_name))
      [] lk.tpe[1] = "NineValueBit" ->
           AddLeaf(ids, sl, h, kind, name, None)
      [] lk.tpe[1] = "NineValueVec" ->
           LET range == lk.tpe[4]
               num_bits == IntRangeLen(range)
               rd == ReadSignalIds(ids, sl, num_bits, <<>>)
           IN  IF rd.res # Success THEN VarOut(rd.res, rd.ids, rd.slots, h)
               ELSE IF rd.signal_ids = <<>>
               THEN VarOut(Panic("index", "add_var"), rd.ids, rd.slots, h)
               ELSE VarOut(Success, rd.ids, rd.slots,
                           HbAddVar(h, name, ConvertVarKind(kind)[1],
                                    ConvertVarKind(kind)[2], num_bits,
                                    Some(AsVarIndex(range)), rd.signal_ids[1], None))
      [] lk.tpe[1] = "Record" ->
           LET fs == AddFields(dbg, tabs, ids, sl,
                               HbAddScope(h, name, "Module"), kind, lk.tpe[3], 1)
           IN  IF fs.res # Success THEN fs
               ELSE VarOut(Success, fs.ids, fs.slots, HbPopScope(fs.hb))
      [] OTHER -> VarOut(Panic("todo", "add_var"), ids, sl, h)

\* the field loop of the Record arm, from field i on
AddFields(dbg, tabs, ids, sl, h, kind, fields, i) ==
    IF i > Len(fields) THEN VarOut(Success, ids, sl, h)
    ELSE IF ~StrInBounds(tabs.strings, fields[i][1])
    THEN VarOut(Panic("index", "get_str"), ids, sl, h)
    ELSE LET r == AddVar(dbg, tabs, ids, sl, h, kind,
                         GetStr(tabs.strings, fields[i][1]), fields[i][2])
         IN  IF r.res # Success THEN r
             ELSE AddFields(dbg, tabs, r.ids, r.slots, r.hb, kind, fields, i + 1)

\* a hierarchy record token: the kind byte, the name, the type id (variables and
\* GenerateFor) and the handles that follow in the stream
HierRecord(kind, name, tpe, ids) == [kind |-> kind, name |-> name, tpe |-> tpe, ids |-> ids]

\* read_hierarchy_scope
ReadHierarchyScope(tabs, h, rec) ==
    IF rec.kind = "GenerateFor"
    THEN IF rec.tpe = 0
         THEN [res |-> Panic("unwrap", "read_type_id"), hb |-> h]
         ELSE [res |-> Panic("todo", "read_hierarchy_scope"), hb |-> h]
    ELSE IF ~StrInBounds(tabs.strings, rec.name)
    THEN [res |-> Panic("index", "get_str"), hb |-> h]
    ELSE [res |-> Success,
          hb |-> HbAddScope(h, GetStr(tabs.strings, rec.name), ConvertScopeType(rec.kind))]

\* read_hierarchy_var
ReadHierarchyVar(dbg, tabs, sl, h, rec) ==
    IF ~StrInBounds(tabs.strings, rec.name)
    THEN VarOut(Panic("index", "get_str"), rec.ids, sl, h)
    ELSE IF rec.tpe = 0
    THEN VarOut(Panic("unwrap", "read_type_id"), rec.ids, sl, h)
    ELSE AddVar(dbg, tabs, rec.ids, sl, h, rec.kind,
                GetStr(tabs.strings, rec.name), rec.tpe)

\* the same comparison made one record later
ExceedsDeclaredOffByOne(num, expected) == num > expected + 1

\* num_declared_vars > expected_num_declared_vars, taken after the increment
ExceedsDeclared(num, expected) == num > expected

\* the state of the loop of read_hierarchy_section
HierState(r, h, sl, num, done) ==
    [res |-> r, hb |-> h, slots |-> sl, num |-> num, done |-> done]

\* one iteration of the loop of read_hierarchy_section
HierStep(dbg, tabs, h, sl, num, expected, rec) ==
    CASE rec.kind = "Invalid" ->
           HierState(Err("FailedToParseHierarchyKind", "read_hierarchy_section"),
                     h, sl, num, FALSE)
      [] rec.kind = "End" -> HierState(Success, h, sl, num, TRUE)
      [] rec.kind = "EndOfScope" -> HierState(Success, HbPopScope(h), sl, num, FALSE)
      [] rec.kind = "Design" ->
           HierState(Panic("unreachable", "read_hierarchy_section"), h, sl, num, FALSE)
      [] rec.kind = "Process" -> HierState(Success, h, sl, num, FALSE)
      [] rec.kind \in ScopeKinds ->
           LET r == ReadHierarchyScope(tabs, h, rec) IN
           HierState(r.res, r.hb, sl, num, FALSE)
      [] rec.kind \in VarKinds ->
           LET r == ReadHierarchyVar(dbg, tabs, sl, h, rec) IN
           IF r.res # Success THEN HierState(r.res, r.hb, r.slots, num, FALSE)
           ELSE IF ExceedsDeclared(num + 1, expected)
           THEN HierState(Err("FailedToParseSection", "hierarchy"),
                          r.hb, r.slots, num + 1, FALSE)
           ELSE HierState(Success, r.hb, r.slots, num + 1, FALSE)

(***************************************************************************)
(* read_hierarchy_section, record by record.                               *)
(***************************************************************************)
\* a type section of a small design: std_ulogic, boolean, integer, a subtype
\* of integer, a two-bit vector, a record, a subtype of std_ulogic, a null
\* slice of the vector, a record inside a record, and a subtype of the subtype
\* of std_ulogic
HierTypeEntries ==
    << EnumEntry(12, StdLogicLits),
       EnumEntry(12, BoolLits),
       PlainEntry("TypeI32", 12),
       SubtypeEntry("SubtypeScalar", 12, 3, RangeTok("TypeI32", "To", 0, 1)),
       ArrayEntry(12, 1, <<4>>),
       RecordEntry(12, <<<<10, 1>>, <<11, 2>>>>),
       SubtypeEntry("SubtypeScalar", 12, 1, RangeTok("TypeE8", "To", 0, 8)),
       SubtypeEntry("SubtypeArray", 12, 5, RangeTok("TypeI32", "Downto", 0, 1)),
       RecordEntry(12, <<<<10, 6>>>>),
       SubtypeEntry("SubtypeScalar", 12, 7, RangeTok("TypeE8", "To", 0, 8)) >>

\* the tables the header pass holds when the HIE mark is read: after STR and
\* TYP, after STR alone, or before both
HierTables ==
    { [strings |-> StdStrings,
       types |-> TypeLoop(FALSE, StdStrings, <<>>, HierTypeEntries).table],
      [strings |-> StdStrings, types |-> <<>>],
      EmptyTables }

\* the records the stream may hold next; pop_scope with no scope open is left
\* to the hierarchy store and is not offered.  The two handles after a variable
\* are offered in non-ascending order (ascending orders arise across variables).
HierRecordsAt(h, sl) ==
    LET handles == 0..Len(sl)
        types   == 0..(Len(HierTypeEntries) + 1)
    IN  { HierRecord(k, 12, 0, <<>>) : k \in {"End", "Design", "Process", "Invalid"} }
        \cup (IF h.stack # <<>> THEN { HierRecord("EndOfScope", 12, 0, <<>>) } ELSE {})
        \cup { HierRecord(k, 12, 1, <<>>) : k \in ScopeKinds }
        \cup { HierRecord("GenerateFor", 12, 0, <<>>) }
        \cup UNION { { HierRecord("Signal", 12, t, <<a, b>>) : t \in types, b \in 0..a }
                      : a \in handles }
        \cup { HierRecord(k, 12, 1, <<1>>) : k \in VarKinds }

\* the 16 header bytes: check_header_zeros, then three counts through read_u32
ReadHierHeader ==
    /\ pc = "hier_header"
    /\ \E zeros \in BOOLEAN, vars_ \in (-1)..MaxVars, max_signal_id \in 0..MaxSignalId :
         IF ~zeros
         THEN /\ Stop(Err("FailedToParseSection", "hierarchy"))
              /\ UNCHANGED <<slots, expected_num_declared_vars>>
         ELSE IF vars_ < 0
         THEN /\ Stop(Err("ExpectedPositiveInteger", "read_u32"))
              /\ UNCHANGED <<slots, expected_num_declared_vars>>
         ELSE /\ pc' = "hier_record"
              /\ expected_num_declared_vars' = vars_
              /\ slots' = NewSlots(max_signal_id)
              /\ UNCHANGED result
    /\ num_declared_vars' = 0
    /\ UNCHANGED <<debug, fileVars, stringVars, headerVars, typeVars, hb, signalVars>>
    /\ UNCHANGED <<rangeVars, record>>

ReadHierRecord ==
    /\ pc = "hier_record"
    /\ Len(hb.items) < MaxRecords
    /\ \E rec \in HierRecordsAt(hb, slots) :
         LET st == HierStep(debug, tables, hb, slots, num_declared_vars,
                            expected_num_declared_vars, rec)
         IN  /\ hb' = st.hb
             /\ slots' = st.slots
             /\ num_declared_vars' = st.num
             /\ IF st.res # Success
                THEN Stop(st.res) /\ UNCHANGED signals
                ELSE IF ~st.done
                THEN UNCHANGED <<pc, result, signals>>
                ELSE IF debug /\ signals # <<>>
                THEN Stop(Panic("debug_assert", "read_hierarchy")) /\ UNCHANGED signals
                ELSE /\ signals' = Flatten(st.slots)
                     /\ pc' = "header"
                     /\ UNCHANGED result
    /\ UNCHANGED <<debug, fileVars, stringVars, tables, consumed, input, typeVars, expected_num_declared_vars,
                   signalVars>>
    /\ UNCHANGED <<rangeVars, record>>

\* the End record when the model reads no further record
ReadHierEnd ==
    /\ pc = "hier_record"
    /\ Len(hb.items) >= MaxRecords
    /\ IF debug /\ signals # <<>>
       THEN Stop(Panic("debug_assert", "read_hierarchy")) /\ UNCHANGED signals
       ELSE /\ signals' = Flatten(slots)
            /\ pc' = "header"
            /\ UNCHANGED result
    /\ UNCHANGED <<debug, fileVars, stringVars, tables, consumed, input, typeVars, hierVars, signalVars>>
    /\ UNCHANGED <<rangeVars, record>>

InitHier ==
    /\ debug \in BOOLEAN
    /\ pc = "hier_header"
    /\ result = Running
    /\ tables \in HierTables
    /\ consumed = <<>> /\ input = <<>> /\ signals = <<>>
    /\ IdleFile /\ IdleStrings /\ IdleTypes /\ IdleHier /\ IdleSignal /\ IdleRanges /\ IdleRecord

NextHier == ReadHierHeader \/ ReadHierRecord \/ ReadHierEnd \/ InputEnds

SpecHier == InitHier /\ [][NextHier]_vars

(***************************************************************************)
(* The signal pass.                                                        *)
(*                                                                         *)
(* A u64 or usize v is held as v when it is small and as v - 2^64 when it  *)
(* is within a small distance of 2^64 (the value an i64 header field or a  *)
(* LEB128 number close to u64::MAX gives), so -1 stands for u64::MAX.      *)
(***************************************************************************)
\* a <= b as unsigned numbers
ULe(a, b) == IF (a < 0) = (b < 0) THEN a <= b ELSE b < 0

\* a + b leaves the 64 bits
AddOverflows(a, b) == (a < 0 /\ b < 0) \/ ((a < 0 \/ b < 0) /\ a + b >= 0)

\* the bytes a value of the U8 encoding may take in the model
ByteVals == {0, 1}

\* read_signal_value: [res, value]
ReadSignalValue(tpe, raw) ==
    CASE tpe = "U8"  -> [res |-> Success, value |-> <<"U8", raw>>]
      [] tpe = "I32" -> [res |-> Success, value |-> <<"I32", raw>>]
      [] tpe = "I64" -> [res |-> Success, value |-> <<"I64", raw>>]
      [] tpe = "F64" -> [res |-> Panic("todo", "read_signal_value"), value |-> <<>>]

\* the lines println! writes
SnapshotLine(t)   == <<"snapshot", t>>
CycleLine(t)      == <<"cycle", t>>
ValueLine(id, v)  == <<"val", id, v>>

\* the two loops of read_snapshot_section over the values raw (one per read),
\* from slot i and its k-th physical id on: [res, lines]
RECURSIVE SnapshotLoop(_, _, _, _, _)
SnapshotLoop(sigs, raw, i, k, lines) ==
    IF i > Len(sigs) THEN [res |-> Success, lines |-> lines]
    ELSE IF k >= SignalInfoLen(sigs[i]) THEN SnapshotLoop(sigs, raw, i + 1, 0, lines)
    ELSE IF raw = <<>> THEN [res |-> Err("Io", "read_exact"), lines |-> lines]
    ELSE LET v == ReadSignalValue(sigs[i].tpe, Head(raw)) IN
         IF v.res # Success THEN [res |-> v.res, lines |-> lines]
         ELSE SnapshotLoop(sigs, Tail(raw), i, k + 1,
                           Append(lines, ValueLine(sigs[i].start_id, v.value)))

\* the slot lists read_hierarchy_section can return: one U8 slot per handle read
SlotsOf(handles, max_signal_id) ==
    [i \in 1..(max_signal_id + 1) |->
        IF (i - 1) \in handles THEN Some(SignalInfo(i - 1, i - 1, "U8")) ELSE None]

SignalLists == { Flatten(SlotsOf(hs, MaxSignalId)) : hs \in SUBSET (1..MaxSignalId) }

\* section start times (i64 header fields) and LEB128 numbers of the stream
StartTimes == {-1, 0, 1}
TimeDeltas == {-1, 0, 1}
Deltas     == {-1, 0, 1, 2}

\* SNP: the 12 header bytes, one value per physical id of every slot, ESN
ReadSnapshotSection ==
    /\ pc = "signals"
    /\ Len(stdout) < MaxOut
    /\ \E zeros \in BOOLEAN, t \in StartTimes, end_ok \in BOOLEAN,
          raw \in [1..Len(signals) -> ByteVals] :
         IF ~zeros
         THEN Stop(Err("FailedToParseSection", "snapshot"))
              /\ UNCHANGED <<start_time, stdout>>
         ELSE LET lp == SnapshotLoop(signals, raw, 1, 0, <<>>) IN
              /\ start_time' = t
              /\ stdout' = stdout \o <<SnapshotLine(t)>> \o lp.lines
              /\ IF lp.res # Success THEN Stop(lp.res)
                 ELSE IF ~end_ok THEN Stop(Err("UnexpectedSection", "snapshot"))
                 ELSE UNCHANGED <<pc, result>>
    /\ UNCHANGED <<debug, fileVars, stringVars, headerVars, typeVars, hierVars>>
    /\ UNCHANGED <<pos_signal_index, delta, time_delta, encoder>>
    /\ UNCHANGED <<rangeVars, record>>

\* CYC: the 8 header bytes, then the first time step begins
BeginCycleSection ==
    /\ pc = "signals"
    /\ Len(stdout) < MaxOut
    /\ \E t \in StartTimes :
         /\ start_time' = t
         /\ stdout' = Append(stdout, CycleLine(t))
    /\ pos_signal_index' = 0
    /\ pc' = "cycle_signals"
    /\ UNCHANGED <<debug, fileVars, stringVars, result, headerVars, typeVars, hierVars>>
    /\ UNCHANGED <<delta, time_delta, encoder>>
    /\ UNCHANGED <<rangeVars, record>>

\* the number read taken as the new value, not added to the old one
AdvanceFromZero(at, by) == by
\* pos_signal_index += delta, start_time += time_delta as u64
Advance(at, by) == at + by

\* one iteration of the loop of read_cycle_signals
ReadCycleDelta ==
    /\ pc = "cycle_signals"
    /\ Len(stdout) < MaxOut
    /\ \E d \in Deltas, raw \in ByteVals :
         LET pos == Advance(pos_signal_index, d) IN
         delta' = d /\
         IF d = 0
         THEN pc' = "cycle_time" /\ UNCHANGED <<result, pos_signal_index, stdout>>
         ELSE IF debug /\ AddOverflows(pos_signal_index, d)
         THEN Stop(Panic("overflow", "read_cycle_signals"))
              /\ UNCHANGED <<pos_signal_index, stdout>>
         ELSE IF pos = 0
         THEN Stop(Err("FailedToParseSection", "cycle"))
              /\ pos_signal_index' = pos /\ UNCHANGED stdout
         ELSE IF pos < 0 \/ pos - 1 >= Len(signals)
         THEN Stop(Panic("index", "read_cycle_signals"))
              /\ pos_signal_index' = pos /\ UNCHANGED stdout
         ELSE LET sig == signals[pos]
                  v   == ReadSignalValue(sig.tpe, raw)
              IN  /\ pos_signal_index' = pos
                  /\ IF v.res # Success THEN Stop(v.res) /\ UNCHANGED stdout
                     ELSE /\ stdout' = Append(stdout, ValueLine(sig.start_id, v.value))
                          /\ UNCHANGED <<pc, result>>
    /\ UNCHANGED <<debug, fileVars, stringVars, headerVars, typeVars, hierVars>>
    /\ UNCHANGED <<start_time, time_delta, encoder>>
    /\ UNCHANGED <<rangeVars, record>>

\* the signed time delta after a time step; a negative one ends the section (ECY)
ReadTimeDelta ==
    /\ pc = "cycle_time"
    /\ Len(stdout) < MaxOut
    /\ \E td \in TimeDeltas, end_ok \in BOOLEAN :
         time_delta' = td /\
         IF td < 0
         THEN /\ IF end_ok THEN pc' = "signals" /\ UNCHANGED result
                 ELSE Stop(Err("UnexpectedSection", "cycle"))
              /\ UNCHANGED <<start_time, stdout, pos_signal_index>>
         ELSE IF debug /\ AddOverflows(start_time, td)
         THEN Stop(Panic("overflow", "read_cycle_section"))
              /\ UNCHANGED <<start_time, stdout, pos_signal_index>>
         ELSE /\ start_time' = Advance(start_time, td)
              /\ stdout' = Append(stdout, CycleLine(Advance(start_time, td)))
              /\ pos_signal_index' = 0
              /\ pc' = "cycle_signals"
              /\ UNCHANGED result
    /\ UNCHANGED <<debug, fileVars, stringVars, headerVars, typeVars, hierVars, delta, encoder>>
    /\ UNCHANGED <<rangeVars, record>>

\* DIR: read_directory, whose result is dropped
SkipDirectory ==
    /\ pc = "signals"
    /\ \E num_ok \in BOOLEAN, end_ok \in BOOLEAN :
         IF ~num_ok THEN Stop(Err("ExpectedPositiveInteger", "read_u32"))
         ELSE IF ~end_ok THEN Stop(Err("UnexpectedSection", "directory"))
         ELSE UNCHANGED <<pc, result>>
    /\ UNCHANGED <<debug, fileVars, stringVars, headerVars, typeVars, hierVars, signalVars>>
    /\ UNCHANGED <<rangeVars, record>>

\* TAI: the loop breaks and encoder.finish() is returned
ReadTailer ==
    /\ pc = "signals"
    /\ pc' = "done"
    /\ result' = Success
    /\ UNCHANGED <<debug, fileVars, stringVars, headerVars, typeVars, hierVars, signalVars>>
    /\ UNCHANGED <<rangeVars, record>>

\* any other mark
UnexpectedSignalSection ==
    /\ pc = "signals"
    /\ Stop(Err("UnexpectedSection", "read_signals"))
    /\ UNCHANGED <<debug, fileVars, stringVars, headerVars, typeVars, hierVars, signalVars>>
    /\ UNCHANGED <<rangeVars, record>>

\* after EOH: the slot list of the hierarchy section, a fresh encoder
InitSignals ==
    /\ debug \in BOOLEAN
    /\ pc = "signals"
    /\ result = Running
    /\ tables = EmptyTables /\ consumed = <<>> /\ input = <<>>
    /\ signals \in SignalLists
    /\ IdleFile /\ IdleStrings /\ IdleTypes /\ IdleHier /\ IdleSignal /\ IdleRanges /\ IdleRecord

NextSignals ==
    \/ ReadSnapshotSection \/ BeginCycleSection \/ ReadCycleDelta \/ ReadTimeDelta
    \/ SkipDirectory \/ ReadTailer \/ UnexpectedSignalSection \/ InputEnds

SpecSignals == InitSignals /\ [][NextSignals]_vars

(***************************************************************************)
(* The header pass (read_hierarchy), section by section.                   *)
(*                                                                         *)
(* A section token is <<tag, zeros, body>>: the mark, whether the padding  *)
(* bytes of its header are zero, and its decoded content.  The body of STR *)
(* is the string table, of TYP the type entries, of WKT the pairs          *)
(* <<type id, well-known type>>, of HIE <<declared vars, max signal id,    *)
(* records>>.                                                              *)
(***************************************************************************)
Section(tag, zeros, body) == <<tag, zeros, body>>
SecTag(sec)   == sec[1]
SecZeros(sec) == sec[2]
SecBody(sec)  == sec[3]

\* the locals of read_hierarchy and the outcome so far
HeaderState(r, tabs, sigs, h) == [res |-> r, tables |-> tabs, signals |-> sigs, hb |-> h]
HeaderFail(st, r) == [st EXCEPT !.res = r]

\* the STR arm
StringSection(dbg, st, sec) ==
    IF ~SecZeros(sec) THEN HeaderFail(st, Err("FailedToParseSection", "string"))
    ELSE IF dbg /\ st.tables.strings # <<>>
    THEN HeaderFail(st, Panic("debug_assert", "read_hierarchy"))
    ELSE [st EXCEPT !.tables.strings = SecBody(sec)]

\* the TYP arm, given what read_type_section returned
TypeArm(dbg, st, r) ==
    IF r.res # Success THEN HeaderFail(st, r.res)
    ELSE IF dbg /\ st.tables.types # <<>>
    THEN HeaderFail(st, Panic("debug_assert", "read_hierarchy"))
    ELSE [st EXCEPT !.tables.types = r.table]

TypeSection(dbg, st, sec) ==
    IF ~SecZeros(sec) THEN HeaderFail(st, Err("FailedToParseSection", "type"))
    ELSE TypeArm(dbg, st, TypeLoop(dbg, st.tables.strings, <<>>, SecBody(sec)))

WellKnownTypes == {"Unknown", "Boolean", "Bit", "StdULogic"}

\* read_well_known_types_section: the loop that reads the pairs
RECURSIVE ReadWkts(_, _)
ReadWkts(wkts, i) ==
    IF i > Len(wkts) THEN Success
    ELSE IF wkts[i][2] \notin WellKnownTypes
    THEN Err("TryFromPrimitive", "read_well_known_types_section")
    ELSE IF wkts[i][1] = 0 THEN Panic("unwrap", "read_type_id")
    ELSE ReadWkts(wkts, i + 1)

\* the loop of the WKT arm over the pairs
RECURSIVE CheckWkts(_, _, _, _)
CheckWkts(dbg, types, wkts, i) ==
    IF i > Len(wkts) THEN Success
    ELSE IF ~TypeInBounds(types, wkts[i][1]) THEN Panic("index", "read_hierarchy")
    ELSE IF wkts[i][2] \in {"Boolean", "Bit"} THEN Panic("todo", "read_hierarchy")
    ELSE IF /\ wkts[i][2] = "StdULogic" /\ dbg
            /\ types[wkts[i][1]][1] # "NineValueBit"
    THEN Panic("debug_assert", "read_hierarchy")
    ELSE CheckWkts(dbg, types, wkts, i + 1)

\* the WKT arm, given what read_well_known_types_section returned
WktArm(dbg, st, wkts, rd) ==
    IF rd # Success THEN HeaderFail(st, rd)
    ELSE IF dbg /\ wkts # <<>> /\ st.tables.types = <<>>
    THEN HeaderFail(st, Panic("debug_assert", "read_hierarchy"))
    ELSE HeaderFail(st, CheckWkts(dbg, st.tables.types, wkts, 1))

WktSection(dbg, st, sec) ==
    IF ~SecZeros(sec)
    THEN HeaderFail(st, Err("FailedToParseSection", "well known types (WKT)"))
    ELSE WktArm(dbg, st, SecBody(sec), ReadWkts(SecBody(sec), 1))

\* the loop of read_hierarchy_section over the records of the section: s0 is
\* the state after the records read so far
RECURSIVE HierLoop(_, _, _, _, _)
HierLoop(dbg, tabs, s0, expected, recs) ==
    IF s0.res # Success \/ s0.done THEN s0
    ELSE IF recs = <<>> THEN [s0 EXCEPT !.res = Err("Io", "read_exact")]
    ELSE HierLoop(dbg, tabs,
                  HierStep(dbg, tabs, s0.hb, s0.slots, s0.num, expected, Head(recs)),
                  expected, Tail(recs))

\* the HIE arm, given what read_hierarchy_section returned and wrote into hb
HierArm(dbg, st, r) ==
    IF r.res # Success THEN [st EXCEPT !.res = r.res, !.hb = r.hb]
    ELSE IF dbg /\ st.signals # <<>>
    THEN [st EXCEPT !.res = Panic("debug_assert", "read_hierarchy"), !.hb = r.hb]
    ELSE [st EXCEPT !.signals = Flatten(r.slots), !.hb = r.hb]

HierSection(dbg, st, sec) ==
    IF ~SecZeros(sec) THEN HeaderFail(st, Err("FailedToParseSection", "hierarchy"))
    ELSE IF SecBody(sec)[1] < 0
    THEN HeaderFail(st, Err("ExpectedPositiveInteger", "read_u32"))
    ELSE HierArm(dbg, st,
                 HierLoop(dbg, st.tables,
                          HierState(Success, st.hb, NewSlots(SecBody(sec)[2]), 0, FALSE),
                          SecBody(sec)[1], SecBody(sec)[3]))

\* one iteration of the loop of read_hierarchy on a section that is not EOH
HeaderStep(dbg, st, sec) ==
    CASE SecTag(sec) = "STR" -> StringSection(dbg, st, sec)
      [] SecTag(sec) = "TYP" -> TypeSection(dbg, st, sec)
      [] SecTag(sec) = "WKT" -> WktSection(dbg, st, sec)
      [] SecTag(sec) = "HIE" -> HierSection(dbg, st, sec)
      [] OTHER -> HeaderFail(st, Err("UnexpectedSection", "read_hierarchy"))

\* the loop of read_hierarchy over a list of sections
RECURSIVE HeaderLoop(_, _, _)
HeaderLoop(dbg, st, secs) ==
    IF secs = <<>> \/ st.res # Success THEN st
    ELSE HeaderLoop(dbg, HeaderStep(dbg, st, Head(secs)), Tail(secs))

\* a string table that holds the first literal of std_ulogic only
ShortStrings == SubSeq(StdStrings, 1, 2)

\* the sections a stream may hold before EOH; input and consumed hold a
\* section as its position in this list
SectionMenu ==
    << Section("STR", TRUE, StdStrings), Section("STR", TRUE, ShortStrings),
       Section("TYP", TRUE, <<>>), Section("TYP", TRUE, <<EnumEntry(12, StdLogicLits)>>),
       Section("WKT", TRUE, <<>>), Section("WKT", TRUE, <<<<1, "StdULogic">>>>),
       Section("WKT", FALSE, <<>>),
       Section("HIE", TRUE, <<0, 0, <<HierRecord("End", 12, 0, <<>>)>>>>),
       Section("HIE", TRUE, <<1, 1, <<HierRecord("Signal", 12, 1, <<1>>),
                                      HierRecord("End", 12, 0, <<>>)>>>>),
       Section("DIR", TRUE, <<>>) >>

SectionAt(k) == SectionMenu[k]

HeaderFiles == UNION { [1..n -> DOMAIN SectionMenu] : n \in 0..MaxSections }

\* the locals of read_hierarchy after an iteration
HeaderBecomes(st) ==
    /\ tables' = st.tables
    /\ signals' = st.signals
    /\ hb' = st.hb
    /\ IF st.res = Success THEN UNCHANGED <<pc, result>> ELSE Stop(st.res)

\* the mark at the head of input is tag
AtSection(tag) ==
    /\ pc = "header"
    /\ input # <<>>
    /\ SecTag(SectionAt(Head(input))) = tag

\* the section at the head of input has been read
SectionRead ==
    /\ consumed' = Append(consumed, Head(input))
    /\ input' = Tail(input)
    /\ UNCHANGED <<debug, fileVars, stringVars, typeVars, slots, num_declared_vars,
                   expected_num_declared_vars, signalVars>>

ReadStringSection ==
    /\ AtSection("STR")
    /\ HeaderBecomes(StringSection(debug, HeaderState(Success, tables, signals, hb),
                                   SectionAt(Head(input))))
    /\ SectionRead
    /\ UNCHANGED <<rangeVars, record>>

ReadTypeSection ==
    /\ AtSection("TYP")
    /\ HeaderBecomes(TypeSection(debug, HeaderState(Success, tables, signals, hb),
                                 SectionAt(Head(input))))
    /\ SectionRead
    /\ UNCHANGED <<rangeVars, record>>

ReadWellKnownTypes ==
    /\ AtSection("WKT")
    /\ HeaderBecomes(WktSection(debug, HeaderState(Success, tables, signals, hb),
                                SectionAt(Head(input))))
    /\ SectionRead
    /\ UNCHANGED <<rangeVars, record>>

ReadHierarchySection ==
    /\ AtSection("HIE")
    /\ HeaderBecomes(HierSection(debug, HeaderState(Success, tables, signals, hb),
                                 SectionAt(Head(input))))
    /\ SectionRead
    /\ UNCHANGED <<rangeVars, record>>

\* a mark that is none of STR, TYP, WKT, HIE, EOH
UnexpectedHeaderSection ==
    /\ pc = "header"
    /\ input # <<>>
    /\ SecTag(SectionAt(Head(input))) \notin {"STR", "TYP", "WKT", "HIE"}
    /\ Stop(Err("UnexpectedSection", "read_hierarchy"))
    /\ UNCHANGED <<tables, signals, hb>>
    /\ SectionRead
    /\ UNCHANGED <<rangeVars, record>>

\* EOH: read_hierarchy returns (signals, hb.finish()) and read_signals begins
ReadEndOfHeader ==
    /\ pc = "header"
    /\ input = <<>>
    /\ pc' = "signals"
    /\ UNCHANGED <<debug, fileVars, stringVars, result, headerVars, typeVars, hierVars, signalVars>>
    /\ UNCHANGED <<rangeVars, record>>

\* the start of the load, before a stream whose header holds the sections of input
InitHeader ==
    /\ debug \in BOOLEAN
    /\ pc = "header"
    /\ result = Running
    /\ tables = EmptyTables /\ consumed = <<>> /\ signals = <<>>
    /\ input \in HeaderFiles
    /\ IdleFile /\ IdleStrings /\ IdleTypes /\ IdleHier /\ IdleSignal /\ IdleRanges /\ IdleRecord

\* the header pass, then the signal pass of a stream whose first signal section
\* is the tailer
NextHeader ==
    \/ ReadStringSection \/ ReadTypeSection \/ ReadWellKnownTypes
    \/ ReadHierarchySection \/ UnexpectedHeaderSection \/ ReadEndOfHeader
    \/ ReadTailer \/ InputEnds

SpecHeader == InitHeader /\ [][NextHeader]_vars

(***************************************************************************)
(* Opening the input: is_ghw, read_ghw_header, try_read_directory.         *)
(*                                                                         *)
(* Here the input is its bytes and a stream position.  A read_exact that   *)
(* needs more bytes than are left fails with Err(Io) and leaves the        *)
(* position at the end of the input.  An input is seekable or it is not    *)
(* (a pipe): on one that is not, every seek and stream_position fails.     *)
(***************************************************************************)
MaxProbes == 2      \* calls of is_ghw before the load

GHW_GZIP_HEADER  == <<31, 139>>
GHW_BZIP2_HEADER == <<66, 90>>
GHW_HEADER_START == <<71, 72, 68, 76, 119, 97, 118, 101, 10>>
GHW_TAILER_LEN   == 12
GHW_DIRECTORY_SECTION     == <<68, 73, 82, 0>>
GHW_TAILER_SECTION        == <<84, 65, 73, 0>>
GHW_END_DIRECTORY_SECTION == <<69, 79, 68, 0>>

\* Read::read_exact of n bytes at position pos
ReadExact(bs, pos, n) ==
    IF n <= Len(bs) - pos
    THEN [ok |-> TRUE, data |-> SubSeq(bs, pos + 1, pos + n), pos |-> pos + n]
    ELSE [ok |-> FALSE, data |-> <<>>, pos |-> Len(bs)]

\* what a function on the stream returns: its outcome, its value, the position
Returned(res, data, pos) == [res |-> res, data |-> data, pos |-> pos]

\* the match without its arm for bzip2
ClassifyMagicNoBzip2(comp_header) ==
    IF comp_header = <<71, 72>> THEN Success
    ELSE IF comp_header = GHW_GZIP_HEADER THEN Err("UnsupportedCompression", "gzip")
    ELSE Err("UnexpectedHeaderMagic", "read_ghw_header")
\* the match on the first two bytes
ClassifyMagic(comp_header) ==
    IF comp_header = <<71, 72>> THEN Success
    ELSE IF comp_header = GHW_GZIP_HEADER THEN Err("UnsupportedCompression", "gzip")
    ELSE IF comp_header = GHW_BZIP2_HEADER THEN Err("UnsupportedCompression", "bzip2")
    ELSE Err("UnexpectedHeaderMagic", "read_ghw_header")

\* the checks on the 7 bytes after the signature
ParseHeader(h, pos) ==
    LET data == [version |-> h[3], big_endian |-> (h[4] = 2),
                 word_len |-> h[5], word_offset |-> h[6]]
    IN  IF \/ h[1] # 16 \/ h[2] # 0
           \/ data.version > 1
           \/ (h[4] # 1 /\ h[4] # 2)
           \/ h[7] # 0
        THEN Returned(Err("UnexpectedHeader", "read_ghw_header"), None, pos)
        ELSE Returned(Success, Some(data), pos)

ReadGhwHeader(bs, pos) ==
    LET c == ReadExact(bs, pos, 2)
        m == ReadExact(bs, c.pos, Len(GHW_HEADER_START) - 2)
        h == ReadExact(bs, m.pos, 16 - Len(GHW_HEADER_START))
    IN  IF ~c.ok THEN Returned(Err("Io", "read_exact"), None, c.pos)
        ELSE IF ClassifyMagic(c.data) # Success
        THEN Returned(ClassifyMagic(c.data), None, c.pos)
        ELSE IF ~m.ok THEN Returned(Err("Io", "read_exact"), None, m.pos)
        ELSE IF m.data # SubSeq(GHW_HEADER_START, 3, Len(GHW_HEADER_START))
        THEN Returned(Err("UnexpectedHeaderMagic", "read_ghw_header"), None, m.pos)
        ELSE IF ~h.ok THEN Returned(Err("Io", "read_exact"), None, h.pos)
        ELSE ParseHeader(h.data, h.pos)

\* i32::from_be_bytes / i32::from_le_bytes of four bytes
ReadI32(big_endian, b) ==
    LET w == IF big_endian THEN b ELSE <<b[4], b[3], b[2], b[1]>>
        top == IF w[1] >= 128 THEN w[1] - 256 ELSE w[1]
    IN  top * 16777216 + w[2] * 65536 + w[3] * 256 + w[4]

ReadU32(big_endian, b) ==
    IF ReadI32(big_endian, b) >= 0
    THEN [res |-> Success, val |-> ReadI32(big_endian, b)]
    ELSE [res |-> Err("ExpectedPositiveInteger", "read_u32"), val |-> 0]

CheckMagicEnd(bs, pos, section, expected) ==
    LET end_magic == ReadExact(bs, pos, 4)
    IN  IF ~end_magic.ok THEN Returned(Err("Io", "read_exact"), None, end_magic.pos)
        ELSE IF end_magic.data = expected THEN Returned(Success, None, end_magic.pos)
        ELSE Returned(Err("UnexpectedSection", section), None, end_magic.pos)

\* the loop of read_directory over the entries left, then the end mark
RECURSIVE DirectoryEntries(_, _, _, _, _)
DirectoryEntries(big_endian, bs, pos, num_entries, sections) ==
    IF num_entries = 0
    THEN LET e == CheckMagicEnd(bs, pos, "directory", GHW_END_DIRECTORY_SECTION)
         IN  IF e.res = Success THEN Returned(Success, Some(sections), e.pos) ELSE e
    ELSE LET id == ReadExact(bs, pos, 4)
             b == ReadExact(bs, id.pos, 4)
         IN  IF ~id.ok THEN Returned(Err("Io", "read_exact"), None, id.pos)
             ELSE IF ~b.ok THEN Returned(Err("Io", "read_exact"), None, b.pos)
             ELSE IF ReadU32(big_endian, b.data).res # Success
             THEN Returned(ReadU32(big_endian, b.data).res, None, b.pos)
             ELSE DirectoryEntries(big_endian, bs, b.pos, num_entries - 1,
                      Append(sections, <<id.data, ReadU32(big_endian, b.data).val>>))

ReadDirectory(hd, bs, pos) ==
    LET h == ReadExact(bs, pos, 8)
    IN  IF ~h.ok THEN Returned(Err("Io", "read_exact"), None, h.pos)
        ELSE IF ReadU32(hd.big_endian, SubSeq(h.data, 5, 8)).res # Success
        THEN Returned(ReadU32(hd.big_endian, SubSeq(h.data, 5, 8)).res, None, h.pos)
        ELSE DirectoryEntries(hd.big_endian, bs, h.pos,
                 ReadU32(hd.big_endian, SubSeq(h.data, 5, 8)).val, <<>>)

\* Seek::seek(SeekFrom::End(-n)): fails on an input that is not seekable and
\* on a position before the start
SeekEndFails(bs, can_seek, n) == ~can_seek \/ Len(bs) < n

\* try_read_directory; the value is None (no directory) or Some(sections)
TryReadDirectory(hd, bs, can_seek, pos) ==
    IF SeekEndFails(bs, can_seek, GHW_TAILER_LEN) THEN Returned(Success, None, pos)
    ELSE LET tailer == ReadExact(bs, Len(bs) - GHW_TAILER_LEN, GHW_TAILER_LEN)
             directory_offset == ReadU32(hd.big_endian, SubSeq(tailer.data, 9, 12))
             mark == ReadExact(bs, directory_offset.val, 4)
         IN  IF SubSeq(tailer.data, 1, 4) # GHW_TAILER_SECTION
             THEN Returned(Success, None, tailer.pos)
             ELSE IF directory_offset.res # Success
             THEN Returned(directory_offset.res, None, tailer.pos)
             ELSE IF ~mark.ok THEN Returned(Err("Io", "read_exact"), None, mark.pos)
             ELSE IF mark.data # GHW_DIRECTORY_SECTION
             THEN Returned(Err("UnexpectedSection", "try_read_directory"), None, mark.pos)
             ELSE ReadDirectory(hd, bs, mark.pos)

\* is_ghw: the answer, then the seek back whose result is discarded
IsGhw ==
    /\ pc = "start"
    /\ Len(answers) < MaxProbes
    /\ LET r == ReadGhwHeader(bytes, cursor)
       IN  /\ answers' = Append(answers, r.res = Success)
           /\ cursor' = IF seekable THEN 0 ELSE r.pos
    /\ UNCHANGED <<debug, bytes, seekable, header, pc, result>>
    /\ UNCHANGED <<stringVars, headerVars, typeVars, hierVars, signalVars>>
    /\ UNCHANGED <<rangeVars, record>>

\* read / read_from_bytes open the input afresh; read_internal reads the header
ReadHeader ==
    /\ pc = "start"
    /\ LET r == ReadGhwHeader(bytes, 0)
       IN  /\ cursor' = r.pos
           /\ header' = r.data
           /\ IF r.res = Success THEN pc' = "position" /\ UNCHANGED result
                                 ELSE Stop(r.res)
    /\ UNCHANGED <<debug, bytes, seekable, answers>>
    /\ UNCHANGED <<stringVars, headerVars, typeVars, hierVars, signalVars>>
    /\ UNCHANGED <<rangeVars, record>>

\* read_internal: stream_position, try_read_directory, the seek back to header_len
FindDirectory ==
    /\ pc = "position"
    /\ IF ~seekable
       THEN Stop(Err("Io", "stream_position")) /\ UNCHANGED cursor
       ELSE LET header_len == cursor
                d == TryReadDirectory(header[1], bytes, seekable, cursor)
            IN  IF d.res # Success
                THEN Stop(d.res) /\ cursor' = d.pos
                ELSE pc' = "header" /\ cursor' = header_len /\ UNCHANGED result
    /\ UNCHANGED <<debug, bytes, seekable, header, answers>>
    /\ UNCHANGED <<stringVars, headerVars, typeVars, hierVars, signalVars>>
    /\ UNCHANGED <<rangeVars, record>>

\* the inputs: a head of 16 bytes, then a tail; and inputs that end early
U32Bytes(big_endian, n) == IF big_endian THEN <<0, 0, 0, n>> ELSE <<n, 0, 0, 0>>

Heads ==
    LET good == GHW_HEADER_START \o <<16, 0, 1, 1, 4, 0, 0>>
    IN  {GHW_HEADER_START \o <<16, 0, v, e, 4, 0, 0>> : v \in 0..2, e \in 0..2}
        \cup {GHW_HEADER_START \o h :
                 h \in {<<15, 0, 1, 1, 4, 0, 0>>, <<16, 1, 1, 1, 4, 0, 0>>,
                        <<16, 0, 1, 1, 4, 0, 1>>}}
        \cup {m \o SubSeq(good, 3, 16) :
                 m \in {GHW_GZIP_HEADER, GHW_BZIP2_HEADER, <<71, 90>>, <<66, 72>>, <<31, 72>>}}
        \cup {<<71, 72, 68, 76, 119, 97, 118, 102, 10>> \o <<16, 0, 1, 1, 4, 0, 0>>}

Tails(big_endian) ==
    LET tailer(b) == GHW_TAILER_SECTION \o <<0, 0, 0, 0>> \o b
        dir(n, end) == GHW_DIRECTORY_SECTION \o <<0, 0, 0, 0>> \o U32Bytes(big_endian, n)
                       \o (IF n = 0 THEN <<>> ELSE <<83, 84, 82, 0>> \o U32Bytes(big_endian, 16))
                       \o end
    IN  { <<>>,
          <<69, 79, 72, 0, 0, 0, 0, 0, 0, 0, 0, 0>>,
          dir(0, GHW_END_DIRECTORY_SECTION) \o tailer(U32Bytes(big_endian, 16)),
          dir(1, GHW_END_DIRECTORY_SECTION) \o tailer(U32Bytes(big_endian, 16)),
          dir(0, <<88, 88, 88, 0>>) \o tailer(U32Bytes(big_endian, 16)),
          tailer(U32Bytes(big_endian, 0)),
          tailer(U32Bytes(big_endian, 200)),
          tailer(<<255, 255, 255, 255>>) }

OpenFiles ==
    {h \o t : h \in Heads, t \in Tails(TRUE) \cup Tails(FALSE)}
    \cup {SubSeq(h, 1, n) : h \in Heads, n \in 0..16}

InitOpen ==
    /\ debug \in BOOLEAN
    /\ bytes \in OpenFiles
    /\ seekable \in BOOLEAN
    /\ cursor = 0 /\ header = <<>> /\ answers = <<>>
    /\ pc = "start"
    /\ result = Running
    /\ IdleStrings /\ IdleHeader /\ IdleTypes /\ IdleHier /\ IdleSignal /\ IdleRanges /\ IdleRecord

NextOpen == IsGhw \/ ReadHeader \/ FindDirectory

SpecOpen == InitOpen /\ [][NextOpen]_vars

(***************************************************************************)
(* read_string_section, byte by byte.                                      *)
(*                                                                         *)
(* A decoded string is the sequence of its code points.  A prefix length   *)
(* is a usize; the buffers of the model are far shorter than LenCap, so    *)
(* every length of LenCap or more is held as LenCap.                       *)
(***************************************************************************)
MaxStrings == 2     \* largest count a string section announces
MaxEntries == 2     \* dictionary entries in the bytes of a string section
LenCap     == 1024  \* prefix lengths from here on truncate nothing

GHW_STRING_SECTION == <<83, 84, 82, 0>>
Anon == <<60, 97, 110, 111, 110, 62>>       \* "<anon>"

\* String::from_utf8_lossy on bytes that hold no lead byte of a sequence of
\* three or four bytes: U+FFFD for every byte that is not part of a sequence
RECURSIVE Utf8Lossy(_)
Utf8Lossy(bs) ==
    IF bs = <<>> THEN <<>>
    ELSE IF bs[1] < 128 THEN <<bs[1]>> \o Utf8Lossy(Tail(bs))
    ELSE IF bs[1] \in 194..223 /\ Len(bs) >= 2 /\ bs[2] \in 128..191
    THEN <<(bs[1] - 192) * 64 + (bs[2] - 128)>> \o Utf8Lossy(Tail(Tail(bs)))
    ELSE <<65533>> \o Utf8Lossy(Tail(bs))

\* c <= 31 || (c >= 128 && c <= 159)
IsTerminator(c) == c <= 31 \/ (c >= 128 /\ c <= 159)

\* the inner loop: bytes are pushed on buf up to the first terminator
RECURSIVE ReadChars(_, _, _)
ReadChars(bs, pos, b) ==
    IF pos >= Len(bs) THEN [res |-> Err("Io", "read_exact"), c |-> 0, buf |-> b, pos |-> pos]
    ELSE IF IsTerminator(bs[pos + 1])
    THEN [res |-> Success, c |-> bs[pos + 1], buf |-> b, pos |-> pos + 1]
    ELSE ReadChars(bs, pos + 1, Append(b, bs[pos + 1]))

\* a | b on lengths below LenCap
RECURSIVE BitOr(_, _)
BitOr(a, b) ==
    IF a = 0 THEN b
    ELSE IF b = 0 THEN a
    ELSE (IF a % 2 = 1 \/ b % 2 = 1 THEN 1 ELSE 0) + 2 * BitOr(a \div 2, b \div 2)

\* ((c & 0x1f) as usize) << shift for a shift below 64: the bits pushed
\* beyond bit 63 are lost
Shl(v, shift) ==
    IF shift < 10
    THEN (IF v * 2^shift >= LenCap THEN LenCap ELSE v * 2^shift)
    ELSE IF shift <= 59 THEN (IF v # 0 THEN LenCap ELSE 0)
    ELSE (IF v % 2^(64 - shift) # 0 THEN LenCap ELSE 0)

\* prev_len |= x
OrLen(prev_len, x) ==
    IF prev_len = LenCap \/ x = LenCap THEN LenCap ELSE BitOr(prev_len, x)

\* the while loop over the bytes that continue a prefix length; a shift of 64
\* or more panics in a build with overflow checks and is taken modulo 64 in
\* one without
RECURSIVE PrevLenLoop(_, _, _, _, _, _)
PrevLenLoop(dbg, bs, pos, c, prev_len, shift) ==
    IF c < 128 THEN [res |-> Success, prev_len |-> prev_len, pos |-> pos]
    ELSE IF pos >= Len(bs) THEN [res |-> Err("Io", "read_exact"), prev_len |-> 0, pos |-> pos]
    ELSE IF dbg /\ shift >= 64
    THEN [res |-> Panic("overflow", "read_string_section"), prev_len |-> 0, pos |-> pos + 1]
    ELSE PrevLenLoop(dbg, bs, pos + 1, bs[pos + 1],
                     OrLen(prev_len, Shl(bs[pos + 1] % 32, shift % 64)), shift + 5)

\* buf.truncate(prev_len)
Truncate(b, prev_len) == SubSeq(b, 1, IF prev_len < Len(b) THEN prev_len ELSE Len(b))

\* one round of the for loop, given what the inner loop returned
StringEntry(dbg, bs, chars) ==
    IF chars.res # Success
    THEN [res |-> chars.res, value |-> <<>>, buf |-> chars.buf, pos |-> chars.pos]
    ELSE LET l == PrevLenLoop(dbg, bs, chars.pos, chars.c, chars.c % 32, 5)
         IN  [res |-> l.res, value |-> Utf8Lossy(chars.buf),
              buf |-> Truncate(chars.buf, l.prev_len), pos |-> l.pos]

\* the 12 header bytes: the zeros, the count, the size
ReadStringHeader ==
    /\ pc = "string_header"
    /\ LET h == ReadExact(bytes, cursor, 12)
           n == ReadU32(header[1].big_endian, SubSeq(h.data, 5, 8))
       IN  /\ cursor' = h.pos
           /\ IF ~h.ok
              THEN Stop(Err("Io", "read_exact")) /\ UNCHANGED <<string_num, string_table>>
              ELSE IF SubSeq(h.data, 1, 4) # <<0, 0, 0, 0>>
              THEN /\ Stop(Err("FailedToParseSection", "string"))
                   /\ UNCHANGED <<string_num, string_table>>
              ELSE IF n.res # Success
              THEN Stop(n.res) /\ UNCHANGED <<string_num, string_table>>
              ELSE /\ string_num' = n.val + 1
                   /\ string_table' = <<Anon>>
                   /\ pc' = "string_entry"
                   /\ UNCHANGED result
    /\ UNCHANGED <<debug, bytes, seekable, header, answers, buf>>
    /\ UNCHANGED <<headerVars, typeVars, hierVars, signalVars>>
    /\ UNCHANGED <<rangeVars, record>>

\* for _ in 1..(string_num + 1): one round
ReadStringEntry ==
    /\ pc = "string_entry"
    /\ Len(string_table) < string_num + 1
    /\ LET e == StringEntry(debug, bytes, ReadChars(bytes, cursor, buf))
       IN  /\ cursor' = e.pos
           /\ buf' = e.buf
           /\ IF e.res # Success
              THEN Stop(e.res) /\ UNCHANGED string_table
              ELSE /\ string_table' = Append(string_table, e.value)
                   /\ UNCHANGED <<pc, result>>
    /\ UNCHANGED <<debug, bytes, seekable, header, answers, string_num>>
    /\ UNCHANGED <<headerVars, typeVars, hierVars, signalVars>>
    /\ UNCHANGED <<rangeVars, record>>

\* the loop is over: Ok(string_table), which read_hierarchy stores
EndStringSection ==
    /\ pc = "string_entry"
    /\ Len(string_table) = string_num + 1
    /\ IF debug /\ tables.strings # <<>>
       THEN Stop(Panic("debug_assert", "read_hierarchy")) /\ UNCHANGED tables
       ELSE /\ tables' = [tables EXCEPT !.strings = string_table]
            /\ pc' = "header"
            /\ UNCHANGED result
    /\ UNCHANGED <<debug, fileVars, stringVars, consumed, input, signals>>
    /\ UNCHANGED <<typeVars, hierVars, signalVars>>
    /\ UNCHANGED <<rangeVars, record>>

\* the dictionary entries of the inputs: the bytes of a string, then the
\* bytes of the prefix length the next string shares with it
EntryMenu ==
    << <<97, 0>>,                       \* "a", 0
       <<97, 98, 1>>,                   \* "ab", 1
       <<98, 2>>,                       \* "b", 2
       <<195, 169, 1>>,                 \* U+00E9 in two bytes, 1: cut in the middle
       <<255, 97, 129, 0>>,             \* a byte that is no UTF-8, "a", 1 + (0 << 5)
       <<97, 98, 128, 1>>,              \* "ab", 0 + (1 << 5)
       <<97, 98, 128, 128, 128, 128, 128, 128, 128, 128, 128, 128, 128, 128, 16>>,
                                        \* "ab", 16 << 60
       <<97, 98, 128, 128, 128, 128, 128, 128, 128, 128, 128, 128, 128, 128, 128, 1>>
                                        \* "ab", 1 << 65
    >>

RECURSIVE Concat(_)
Concat(ss) == IF ss = <<>> THEN <<>> ELSE Head(ss) \o Concat(Tail(ss))

\* a head of 16 bytes, the STR mark, the 12 header bytes, entries, and the
\* EOS mark unless the input ends early
StringFiles ==
    LET head(e) == GHW_HEADER_START \o <<16, 0, 1, e, 4, 0, 0>>
        counts(e) == {U32Bytes(e = 2, n) : n \in 0..MaxStrings} \cup {<<255, 255, 255, 255>>}
        picks == UNION { [1..k -> DOMAIN EntryMenu] : k \in 0..MaxEntries }
    IN  UNION { { head(e) \o GHW_STRING_SECTION \o <<0, 0, 0, 0>> \o c \o <<0, 0, 0, 0>>
                      \o Concat([i \in DOMAIN p |-> EntryMenu[p[i]]]) \o end :
                      c \in counts(e), p \in picks, end \in {<<69, 79, 83, 0>>, <<>>} } :
                  e \in {1, 2} }
        \cup { head(1) \o GHW_STRING_SECTION \o z : z \in {<<0, 0, 0, 1>>, <<0, 0>>} }

InitStrings ==
    /\ debug \in BOOLEAN
    /\ bytes \in StringFiles
    /\ seekable = TRUE
    /\ cursor = 20
    /\ header = ReadGhwHeader(bytes, 0).data
    /\ answers = <<>>
    /\ pc = "string_header"
    /\ result = Running
    /\ IdleStrings /\ IdleHeader /\ IdleTypes /\ IdleHier /\ IdleSignal /\ IdleRanges /\ IdleRecord

NextStrings == ReadStringHeader \/ ReadStringEntry \/ EndStringSection

SpecStrings == InitStrings /\ [][NextStrings]_vars

(***************************************************************************)
(* The framing of the sections, byte by byte: the marks that read_hierarchy*)
(* and read_signals dispatch on and the fixed-size header each section     *)
(* function reads first.  The string section and the directory are read to *)
(* their end; a load that enters the body of a TYP, WKT, HIE, SNP or CYC   *)
(* section is followed no further here (SpecTypes, SpecHier and            *)
(* SpecSignals begin there).                                               *)
(***************************************************************************)
MaxFrames == 2      \* sections in the bytes of an input

GHW_HIERARCHY_SECTION     == <<72, 73, 69, 0>>
GHW_TYPE_SECTION          == <<84, 89, 80, 0>>
GHW_WK_TYPE_SECTION       == <<87, 75, 84, 0>>
GHW_END_OF_HEADER_SECTION == <<69, 79, 72, 0>>
GHW_SNAPSHOT_SECTION      == <<83, 78, 80, 0>>
GHW_CYCLE_SECTION         == <<67, 89, 67, 0>>

\* the value of the bytes of an unsigned number, most significant first
RECURSIVE FromBeBytes(_, _)
FromBeBytes(b, acc) ==
    IF b = <<>> THEN acc ELSE FromBeBytes(Tail(b), acc * 256 + Head(b))

\* i64::from_be_bytes / i64::from_le_bytes of eight bytes
ReadI64(big_endian, b) ==
    LET w == IF big_endian THEN b ELSE [i \in 1..8 |-> b[9 - i]]
    IN  IF w[1] >= 128
        THEN -(FromBeBytes([i \in 1..8 |-> 255 - w[i]], 0)) - 1
        ELSE FromBeBytes(w, 0)

\* check_header_zeros whose test always passes
CheckHeaderZerosNever(section, h) == Success

\* check_header_zeros
CheckHeaderZeros(section, h) ==
    IF Len(h) < 4 THEN Err("FailedToParseSection", section)
    ELSE IF SubSeq(h, 1, 4) = <<0, 0, 0, 0>> THEN Success
    ELSE Err("FailedToParseSection", section)

\* the loop of read_hierarchy: the mark, then the arm it selects
ReadHeaderMark ==
    /\ pc = "header"
    /\ LET mark == ReadExact(bytes, cursor, 4)
       IN  /\ cursor' = mark.pos
           /\ IF ~mark.ok THEN Stop(Err("Io", "read_exact"))
              ELSE IF mark.data = GHW_STRING_SECTION
              THEN pc' = "string_header" /\ UNCHANGED result
              ELSE IF mark.data = GHW_TYPE_SECTION
              THEN pc' = "type_header" /\ UNCHANGED result
              ELSE IF mark.data = GHW_WK_TYPE_SECTION
              THEN pc' = "wkt_header" /\ UNCHANGED result
              ELSE IF mark.data = GHW_HIERARCHY_SECTION
              THEN pc' = "hier_header" /\ UNCHANGED result
              ELSE IF mark.data = GHW_END_OF_HEADER_SECTION
              THEN pc' = "signals" /\ UNCHANGED result
              ELSE Stop(Err("UnexpectedSection", "read_hierarchy"))
    /\ UNCHANGED <<debug, bytes, seekable, header, answers, stringVars>>
    /\ UNCHANGED <<headerVars, typeVars, hierVars, signalVars>>
    /\ UNCHANGED <<rangeVars, record>>

\* read_type_section: the 8 header bytes
TypeSectionHeader ==
    /\ pc = "type_header"
    /\ LET h == ReadExact(bytes, cursor, 8)
           n == ReadU32(header[1].big_endian, SubSeq(h.data, 5, 8))
       IN  /\ cursor' = h.pos
           /\ IF ~h.ok THEN Stop(Err("Io", "read_exact")) /\ UNCHANGED type_num
              ELSE IF CheckHeaderZeros("type", h.data) # Success
              THEN Stop(CheckHeaderZeros("type", h.data)) /\ UNCHANGED type_num
              ELSE IF n.res # Success THEN Stop(n.res) /\ UNCHANGED type_num
              ELSE pc' = "type_entry" /\ type_num' = n.val /\ UNCHANGED result
    /\ table' = <<>>
    /\ UNCHANGED <<debug, bytes, seekable, header, answers, stringVars>>
    /\ UNCHANGED <<headerVars, entry, hierVars, signalVars>>
    /\ UNCHANGED <<rangeVars, record>>

\* read_well_known_types_section: the 4 header bytes
WktSectionHeader ==
    /\ pc = "wkt_header"
    /\ LET h == ReadExact(bytes, cursor, 4)
       IN  /\ cursor' = h.pos
           /\ IF ~h.ok THEN Stop(Err("Io", "read_exact"))
              ELSE IF CheckHeaderZeros("well known types (WKT)", h.data) # Success
              THEN Stop(CheckHeaderZeros("well known types (WKT)", h.data))
              ELSE pc' = "wkt_entry" /\ UNCHANGED result
    /\ UNCHANGED <<debug, bytes, seekable, header, answers, stringVars>>
    /\ UNCHANGED <<headerVars, typeVars, hierVars, signalVars>>
    /\ UNCHANGED <<rangeVars, record>>

\* read_hierarchy_section: the 16 header bytes
HierarchySectionHeader ==
    /\ pc = "hier_header"
    /\ LET hdr == ReadExact(bytes, cursor, 16)
           big == header[1].big_endian
           scopes == ReadU32(big, SubSeq(hdr.data, 5, 8))
           vars_ == ReadU32(big, SubSeq(hdr.data, 9, 12))
           max_signal_id == ReadU32(big, SubSeq(hdr.data, 13, 16))
           r == IF ~hdr.ok THEN Err("Io", "read_exact")
                ELSE IF CheckHeaderZeros("hierarchy", hdr.data) # Success
                THEN CheckHeaderZeros("hierarchy", hdr.data)
                ELSE IF scopes.res # Success THEN scopes.res
                ELSE IF vars_.res # Success THEN vars_.res
                ELSE max_signal_id.res
       IN  /\ cursor' = hdr.pos
           /\ IF r # Success
              THEN Stop(r) /\ UNCHANGED <<slots, expected_num_declared_vars>>
              ELSE /\ pc' = "hier_record"
                   /\ expected_num_declared_vars' = vars_.val
                   /\ slots' = NewSlots(max_signal_id.val)
                   /\ UNCHANGED result
    /\ num_declared_vars' = 0
    /\ UNCHANGED <<debug, bytes, seekable, header, answers, stringVars>>
    /\ UNCHANGED <<headerVars, typeVars, hb, signalVars>>
    /\ UNCHANGED <<rangeVars, record>>

\* the loop of read_signals: the mark, then the arm it selects; the directory
\* is skipped by reading it, the tailer ends the load
ReadSignalMark ==
    /\ pc = "signals"
    /\ LET mark == ReadExact(bytes, cursor, 4)
           dir == ReadDirectory(header[1], bytes, mark.pos)
       IN  IF ~mark.ok THEN cursor' = mark.pos /\ Stop(Err("Io", "read_exact"))
           ELSE IF mark.data = GHW_SNAPSHOT_SECTION
           THEN cursor' = mark.pos /\ pc' = "snapshot_header" /\ UNCHANGED result
           ELSE IF mark.data = GHW_CYCLE_SECTION
           THEN cursor' = mark.pos /\ pc' = "cycle_header" /\ UNCHANGED result
           ELSE IF mark.data = GHW_DIRECTORY_SECTION
           THEN /\ cursor' = dir.pos
                /\ IF dir.res # Success THEN Stop(dir.res) ELSE UNCHANGED <<pc, result>>
           ELSE IF mark.data = GHW_TAILER_SECTION
           THEN cursor' = mark.pos /\ pc' = "done" /\ result' = Success
           ELSE cursor' = mark.pos /\ Stop(Err("UnexpectedSection", "read_signals"))
    /\ UNCHANGED <<debug, bytes, seekable, header, answers, stringVars>>
    /\ UNCHANGED <<headerVars, typeVars, hierVars, signalVars>>
    /\ UNCHANGED <<rangeVars, record>>

\* read_snapshot_section: the 12 header bytes and the line it prints
SnapshotSectionHeader ==
    /\ pc = "snapshot_header"
    /\ LET h == ReadExact(bytes, cursor, 12)
           t == ReadI64(header[1].big_endian, SubSeq(h.data, 5, 12))
       IN  /\ cursor' = h.pos
           /\ IF ~h.ok
              THEN Stop(Err("Io", "read_exact")) /\ UNCHANGED <<start_time, stdout>>
              ELSE IF CheckHeaderZeros("snapshot", h.data) # Success
              THEN /\ Stop(CheckHeaderZeros("snapshot", h.data))
                   /\ UNCHANGED <<start_time, stdout>>
              ELSE /\ start_time' = t
                   /\ stdout' = Append(stdout, SnapshotLine(t))
                   /\ pc' = "snapshot_values"
                   /\ UNCHANGED result
    /\ UNCHANGED <<debug, bytes, seekable, header, answers, stringVars>>
    /\ UNCHANGED <<headerVars, typeVars, hierVars>>
    /\ UNCHANGED <<pos_signal_index, delta, time_delta, encoder>>
    /\ UNCHANGED <<rangeVars, record>>

\* read_cycle_section: the 8 header bytes, which hold no zeros, and the line
\* the first round of its loop prints
CycleSectionHeader ==
    /\ pc = "cycle_header"
    /\ LET h == ReadExact(bytes, cursor, 8)
           t == ReadI64(header[1].big_endian, h.data)
       IN  /\ cursor' = h.pos
           /\ IF ~h.ok
              THEN /\ Stop(Err("Io", "read_exact"))
                   /\ UNCHANGED <<start_time, stdout, pos_signal_index>>
              ELSE /\ start_time' = t
                   /\ stdout' = Append(stdout, CycleLine(t))
                   /\ pos_signal_index' = 0
                   /\ pc' = "cycle_signals"
                   /\ UNCHANGED result
    /\ UNCHANGED <<debug, bytes, seekable, header, answers, stringVars>>
    /\ UNCHANGED <<headerVars, typeVars, hierVars>>
    /\ UNCHANGED <<delta, time_delta, encoder>>
    /\ UNCHANGED <<rangeVars, record>>

\* the sections of the inputs, whole and cut short, with the four bytes
\* after the mark zero and not
FrameMenu(big_endian) ==
    LET u(n) == U32Bytes(big_endian, n)
        z == <<0, 0, 0, 0>>
        t(n) == IF big_endian THEN z \o <<0, 0, 0, n>> ELSE <<n, 0, 0, 0>> \o z
    IN  { GHW_STRING_SECTION \o z \o u(0) \o z \o <<69, 79, 83, 0>>,
          GHW_STRING_SECTION \o <<0, 1, 0, 0>> \o u(0) \o z \o <<69, 79, 83, 0>>,
          GHW_STRING_SECTION \o <<0, 0, 0, 1>>,
          GHW_TYPE_SECTION \o z \o u(0),
          GHW_TYPE_SECTION \o <<0, 0, 0, 9>> \o u(1),
          GHW_TYPE_SECTION \o z \o <<255, 255, 255, 255>>,
          GHW_WK_TYPE_SECTION \o z \o <<0>>,
          GHW_WK_TYPE_SECTION \o <<1, 0, 0, 0>> \o <<0>>,
          GHW_HIERARCHY_SECTION \o z \o u(0) \o u(1) \o u(1) \o <<0>>,
          GHW_HIERARCHY_SECTION \o <<0, 0, 2, 0>> \o u(0) \o u(1) \o u(1) \o <<0>>,
          GHW_HIERARCHY_SECTION \o z \o u(0) \o <<255, 255, 255, 255>> \o u(1),
          GHW_END_OF_HEADER_SECTION,
          GHW_END_OF_HEADER_SECTION \o z,
          GHW_END_OF_HEADER_SECTION \o <<0, 0, 0, 1>>,
          GHW_END_OF_HEADER_SECTION \o GHW_SNAPSHOT_SECTION \o z \o t(1)
              \o <<69, 83, 78, 0>>,
          GHW_END_OF_HEADER_SECTION \o GHW_SNAPSHOT_SECTION \o <<0, 0, 0, 1>> \o t(1),
          GHW_END_OF_HEADER_SECTION \o GHW_SNAPSHOT_SECTION \o <<1, 0>>,
          GHW_END_OF_HEADER_SECTION \o GHW_CYCLE_SECTION \o t(2) \o <<0>>,
          GHW_END_OF_HEADER_SECTION \o GHW_CYCLE_SECTION
              \o <<255, 255, 255, 255, 255, 255, 255, 255>>,
          GHW_END_OF_HEADER_SECTION \o GHW_DIRECTORY_SECTION \o z \o u(0)
              \o GHW_END_DIRECTORY_SECTION \o GHW_TAILER_SECTION,
          GHW_END_OF_HEADER_SECTION \o GHW_DIRECTORY_SECTION \o <<0, 0, 0, 1>> \o u(0)
              \o GHW_END_DIRECTORY_SECTION \o GHW_SNAPSHOT_SECTION \o z \o t(0),
          GHW_END_OF_HEADER_SECTION \o GHW_TAILER_SECTION,
          <<88, 88, 88, 0>> \o z }

\* a head of 16 bytes, then up to max_frames entries of the menu, whole or
\* without the last two bytes
FrameFiles(max_frames) ==
    LET head(e) == GHW_HEADER_START \o <<16, 0, 1, e, 4, 0, 0>>
        menu(e) == FrameMenu(e = 2)
        tails(e) == UNION { [1..n -> menu(e)] : n \in 0..max_frames }
        cut(f, k) == SubSeq(f, 1, Len(f) - k)
    IN  UNION { { cut(head(e) \o Concat(p), k) : p \in tails(e), k \in {0, 2} } :
                  e \in {1, 2} }

InitFrames ==
    /\ debug \in BOOLEAN
    /\ bytes \in FrameFiles(MaxFrames)
    /\ seekable = TRUE
    /\ cursor = 16
    /\ header = ReadGhwHeader(bytes, 0).data
    /\ answers = <<>>
    /\ pc = "header"
    /\ result = Running
    /\ IdleStrings /\ IdleHeader /\ IdleTypes /\ IdleHier /\ IdleSignal /\ IdleRanges /\ IdleRecord

NextFrames ==
    \/ ReadHeaderMark
    \/ ReadStringHeader \/ ReadStringEntry \/ EndStringSection
    \/ TypeSectionHeader \/ WktSectionHeader \/ HierarchySectionHeader
    \/ ReadSignalMark \/ SnapshotSectionHeader \/ CycleSectionHeader

SpecFrames == InitFrames /\ [][NextFrames]_vars

(***************************************************************************)
(* The methods of IntRange, called on ranges of either direction with any  *)
(* two endpoints of a small interval around zero (read_range takes both    *)
(* endpoints from the input as they are).                                  *)
(***************************************************************************)
MaxEndpoint == 2    \* endpoints of the ranges lie in -MaxEndpoint..MaxEndpoint

RangeMenu ==
    { IntRange(dir, l, r) : dir \in {"To", "Downto"},
                            l \in (-MaxEndpoint)..MaxEndpoint,
                            r \in (-MaxEndpoint)..MaxEndpoint }

\* self.len()
CallLen ==
    /\ pc = "range"
    /\ returned' = <<"len", IntRangeLen(range_self)>>
    /\ pc' = "returned"
    /\ UNCHANGED <<debug, fileVars, stringVars, result, headerVars, typeVars, hierVars,
                   signalVars, range_self, range_other, record>>

\* self.is_subset_of(&other)
CallIsSubsetOf ==
    /\ pc = "range"
    /\ returned' = <<"is_subset_of", IsSubsetOf(range_self, range_other)>>
    /\ pc' = "returned"
    /\ UNCHANGED <<debug, fileVars, stringVars, result, headerVars, typeVars, hierVars,
                   signalVars, range_self, range_other, record>>

InitRanges ==
    /\ debug \in BOOLEAN
    /\ pc = "range"
    /\ result = Running
    /\ range_self \in RangeMenu
    /\ range_other \in RangeMenu
    /\ returned = <<>>
    /\ IdleFile /\ IdleStrings /\ IdleHeader /\ IdleTypes /\ IdleHier /\ IdleSignal
    /\ IdleRecord

NextRanges == CallLen \/ CallIsSubsetOf

SpecRanges == InitRanges /\ [][NextRanges]_vars

(***************************************************************************)
(* read_hierarchy_var, called once: on a hierarchy with no, one or two     *)
(* scopes open, a slot table with nothing allocated or its first handle    *)
(* allocated, and the type table of HierTypeEntries.  record holds the     *)
(* kind, the name and the type id of the variable and, as its ids, the     *)
(* handles the stream holds after it; the call leaves in ids the handles   *)
(* it did not read.                                                        *)
(***************************************************************************)
MaxHandles == 3     \* handles the stream holds after a variable record

\* the hierarchy when the loop of read_hierarchy_section reads the record
OpenScopes ==
    LET one == HbAddScope(EmptyHb, GetStr(StdStrings, 12), "VhdlBlock")
    IN  { EmptyHb, one, HbAddScope(one, GetStr(StdStrings, 11), "VhdlPackage") }

\* the slot table at that time
SlotTables ==
    UNION { { NewSlots(n), ReadSignalId(1, NewSlots(n)).slots } : n \in 0..MaxSignalId }

VarRecordsAt(sl) ==
    { HierRecord(k, 12, t, ids) :
        k \in VarKinds, t \in 1..(Len(HierTypeEntries) + 1),
        ids \in UNION { [1..n -> 0..Len(sl)] : n \in 0..MaxHandles } }

ReadHierarchyVarCalled ==
    /\ pc = "hier_var"
    /\ LET r == ReadHierarchyVar(debug, tables, slots, hb, record)
       IN  /\ hb' = r.hb
           /\ slots' = r.slots
           /\ record' = [record EXCEPT !.ids = r.ids]
           /\ IF r.res = Success THEN pc' = "hier_record" /\ UNCHANGED result
              ELSE Stop(r.res)
    /\ UNCHANGED <<debug, fileVars, stringVars, headerVars, typeVars>>
    /\ UNCHANGED <<num_declared_vars, expected_num_declared_vars, signalVars, rangeVars>>

InitVars ==
    /\ debug \in BOOLEAN
    /\ pc = "hier_var"
    /\ result = Running
    /\ tables = [strings |-> StdStrings,
                 types |-> TypeLoop(FALSE, StdStrings, <<>>, HierTypeEntries).table]
    /\ consumed = <<>> /\ input = <<>> /\ signals = <<>>
    /\ hb \in OpenScopes
    /\ slots \in SlotTables
    /\ record \in VarRecordsAt(slots)
    /\ num_declared_vars = 0 /\ expected_num_declared_vars = MaxVars
    /\ IdleFile /\ IdleStrings /\ IdleTypes /\ IdleSignal /\ IdleRanges

NextVars == ReadHierarchyVarCalled

SpecVars == InitVars /\ [][NextVars]_vars

(***************************************************************************)
(* Properties of the header pass (checked under SpecHeader).               *)
(***************************************************************************)
\* the header sections of the stream, read or not
HeaderFile == consumed \o input

FourTags == <<"STR", "TYP", "WKT", "HIE">>

\* the stream holds each of STR, TYP, WKT, HIE once
HoldsEachOnce(file) ==
    /\ Len(file) = Len(FourTags)
    /\ \A t \in DOMAIN FourTags : \E i \in DOMAIN file : SecTag(SectionAt(file[i])) = FourTags[t]

\* the same sections in the order STR, TYP, WKT, HIE
InCanonicalOrder(file) ==
    [t \in DOMAIN FourTags |->
        SectionAt(file[CHOOSE i \in DOMAIN file : SecTag(SectionAt(file[i])) = FourTags[t]])]

\* what read_hierarchy holds after the sections secs of a fresh stream
HeaderRun(dbg, secs) ==
    HeaderLoop(dbg, HeaderState(Success, EmptyTables, <<>>, EmptyHb), secs)

\* the load has failed inside read_hierarchy, on a section that was read whole
HeaderPassFailed ==
    /\ result.kind \in {"err", "panic"}
    /\ result # Err("Io", "read_exact")

\* the once-only section tags that occur more than once among the sections read
ReadTwice ==
    { SecTag(SectionAt(consumed[i])) : i \in DOMAIN consumed }
    \cap { t \in {"STR", "TYP", "HIE"} :
             \E i, j \in DOMAIN consumed :
                 /\ i < j
                 /\ SecTag(SectionAt(consumed[i])) = t
                 /\ SecTag(SectionAt(consumed[j])) = t }

\* C4 (as claimed): when the stream holds each of STR, TYP, WKT and HIE once and
\* the header pass succeeds on them in the order STR, TYP, WKT, HIE, it does not
\* fail on them in the order of the stream, and at EOH it holds the same
\* hierarchy and slot list.
C4_AnyOrderSameResult ==
    HoldsEachOnce(HeaderFile)
    /\ HeaderRun(debug, InCanonicalOrder(HeaderFile)).res = Success
    => /\ ~HeaderPassFailed
       /\ pc = "signals" =>
            /\ signals = HeaderRun(debug, InCanonicalOrder(HeaderFile)).signals
            /\ hb = HeaderRun(debug, InCanonicalOrder(HeaderFile)).hb

\* C5 (as claimed): no load completes successfully after it has read a second
\* STR, TYP or HIE section.
C5_NoSuccessAfterSecondTable ==
    pc = "done" /\ result = Success => ReadTwice = {}

(***************************************************************************)
(* Properties of the type section (checked under SpecTypes).               *)
(***************************************************************************)
\* the entry read last is a subtype over a base that resolves to a type of kind k
\* and its range token decodes to an integer range
NarrowsBase(kind, k) ==
    /\ entry # <<>>
    /\ entry.kind = kind
    /\ entry.base \in 1..Len(table)
    /\ ReadRange(entry.range).res = Success
    /\ LookupConcreteType(FALSE, table, entry.base).res = Success
    /\ LookupConcreteType(FALSE, table, entry.base).tpe[1] = k

\* the range of the entry read last lies within the range of its base
WithinBase ==
    LET bt == LookupConcreteType(FALSE, table, entry.base).tpe
        rg == ReadRange(entry.range).range
    IN  IF bt[1] = "I32" THEN IsSubsetOf(rg, FromI32Option(bt[3]))
        ELSE IsSubsetOf(rg, bt[4])

\* C6 (as claimed): in the type table under construction no TypeAlias entry has
\* another TypeAlias as its base, so following an alias one level always reaches
\* a non-alias type.
C6_AliasBaseIsConcrete ==
    \A i \in DOMAIN table :
        IsAlias(table[i]) => ~IsAlias(table[table[i][3]])

\* the range of the entry read last is all of a base of n literals
CoversBase(n) ==
    /\ RangeStart(ReadRange(entry.range).range) = 0
    /\ RangeLast(ReadRange(entry.range).range) + 1 = n

\* the entry read last is one of the unimplemented variants: an array with more
\* than one dimension, a subtype with a float range, a SubtypeScalar that narrows
\* an enum or a nine-value bit
UnimplementedVariant ==
    /\ entry # <<>>
    /\ \/ entry.kind = "TypeArray" /\ Len(entry.dims) > 1
       \/ entry.kind \in {"SubtypeScalar", "SubtypeArray"} /\ entry.range.rkind = "TypeF64"
       \/ /\ NarrowsBase("SubtypeScalar", "Enum")
          /\ ~CoversBase(Len(LookupConcreteType(FALSE, table, entry.base).tpe[3]))
       \/ /\ NarrowsBase("SubtypeScalar", "NineValueBit")
          /\ ~CoversBase(9)

\* C7 (as claimed): an unimplemented variant (an array with more than one
\* dimension, a narrowed enum or nine-value bit, a float range) never aborts the
\* process: the load that read it does not end in the panic of todo!().
C7_UnimplementedIsErrorValue ==
    UnimplementedVariant => ~(result.kind = "panic" /\ result.what = "todo")

\* C10 (as claimed): once a SubtypeScalar over I32 or a SubtypeArray over
\* NineValueVec whose range is not a subset of the range of its base has been
\* read, the load is aborted.
C10_OutOfBaseRangeAborts ==
    /\ NarrowsBase("SubtypeScalar", "I32") /\ ~WithinBase => result # Running
    /\ NarrowsBase("SubtypeArray", "NineValueVec") /\ ~WithinBase => result # Running

(***************************************************************************)
(* Properties of the signal pass (checked under SpecSignals).              *)
(***************************************************************************)
\* the lines of stdout that report a value read from the stream
ValueLines == { i \in DOMAIN stdout : stdout[i][1] = "val" }

\* the snapshot line or time step line under which line i was printed
HeadLine(i) ==
    CHOOSE k \in 1..i :
        /\ stdout[k][1] # "val"
        /\ \A m \in (k + 1)..i : stdout[m][1] = "val"

\* the time at which the value of line i was read
TimeAt(i) == stdout[HeadLine(i)][2]

\* C1 (as claimed): after the load the encoder holds one sample for every value
\* that was read from the stream in the snapshot and cycle sections.
C1_EncoderHoldsEverySample ==
    pc = "done" => Len(encoder) = Cardinality(ValueLines)

\* C2 (as claimed): across the whole signal pass no value is read at a time
\* smaller than that of a value read before it.
C2_TimeNonDecreasing ==
    \A i, j \in ValueLines : i < j => ULe(TimeAt(i), TimeAt(j))

\* C3 (as claimed): within one time step of a cycle section the values are read
\* in strictly ascending signal-handle order.
C3_AscendingHandlesInTimeStep ==
    \A i, j \in ValueLines :
        /\ i < j
        /\ HeadLine(i) = HeadLine(j)
        /\ stdout[HeadLine(i)][1] = "cycle"
        => stdout[i][2] < stdout[j][2]

(***************************************************************************)
(* Properties of the hierarchy section (checked under SpecHier).           *)
(***************************************************************************)
\* the variable records behind the items of the builder: a variable that is
\* not inside a Module scope, or a Module scope (which only a record-typed
\* variable opens) that is not inside another one; m is the depth of the
\* enclosing Module scope, -1 when there is none
ItemDepth(it) == IF it[1] = "scope" THEN it[4] ELSE it[9]

RECURSIVE VarRecordsFrom(_, _, _)
VarRecordsFrom(items, i, m) ==
    IF i > Len(items) THEN 0
    ELSE LET it == items[i] IN
         IF m >= 0 /\ ItemDepth(it) > m THEN VarRecordsFrom(items, i + 1, m)
         ELSE IF it[1] = "var" THEN 1 + VarRecordsFrom(items, i + 1, -1)
         ELSE IF it[3] = "Module" THEN 1 + VarRecordsFrom(items, i + 1, ItemDepth(it))
         ELSE VarRecordsFrom(items, i + 1, -1)

VarRecords(items) == VarRecordsFrom(items, 1, -1)

\* C8 (as claimed): a handle outside [1, max_signal_id] ends the load with an
\* error value, so the load never aborts inside read_signal_id.
C8_BadHandleIsErrorValue ==
    result.kind = "panic" => result.where # "read_signal_id"

\* C9: while the hierarchy section is being parsed, and after it has been
\* parsed, the counter equals the number of variable records processed (a
\* record-typed variable counting once) and does not exceed the announced
\* count; the counter exceeds it only in a load that failed with
\* FailedToParseSection("hierarchy"), and then by exactly one.
C9_DeclaredVarsBounded ==
    /\ result = Running /\ pc \in {"hier_record", "header"} =>
         /\ num_declared_vars = VarRecords(hb.items)
         /\ num_declared_vars <= expected_num_declared_vars
    /\ num_declared_vars > expected_num_declared_vars =>
         /\ result = Err("FailedToParseSection", "hierarchy")
         /\ num_declared_vars = expected_num_declared_vars + 1
         /\ num_declared_vars = VarRecords(hb.items)

\* C9 witness: the second variable record, a record-typed one with two leaves,
\* exceeds an announced count of one
C9_Witness ==
    /\ result = Err("FailedToParseSection", "hierarchy")
    /\ expected_num_declared_vars = 1
    /\ num_declared_vars = 2
    /\ \E i \in 1..Len(hb.items) : hb.items[i][1] = "scope" /\ hb.items[i][3] = "Module"
    /\ Len(hb.items) = 4

(***************************************************************************)
(* Properties of opening the input (checked under SpecOpen).               *)
(***************************************************************************)
\* the input begins with the bytes m
LeadsWith(m) == Len(bytes) >= Len(m) /\ SubSeq(bytes, 1, Len(m)) = m

\* read_internal returned the error of read_ghw_header
HeaderRejected == pc = "stop" /\ header = None

\* C11 (as claimed): of the inputs read_ghw_header rejects, one that begins
\* with 0x1F 0x8B gives UnsupportedCompression("gzip"), one that begins with
\* "BZ" gives UnsupportedCompression("bzip2"), and every other input whose
\* first 9 bytes are not the signature gives UnexpectedHeaderMagic.
C11_SignatureMismatchIsMagicError ==
    pc # "start" =>
        IF LeadsWith(GHW_GZIP_HEADER)
        THEN result = Err("UnsupportedCompression", "gzip")
        ELSE IF LeadsWith(GHW_BZIP2_HEADER)
        THEN result = Err("UnsupportedCompression", "bzip2")
        ELSE ~LeadsWith(GHW_HEADER_START) =>
                 result = Err("UnexpectedHeaderMagic", "read_ghw_header")

\* C11 (amended): an input that ends before the two leading bytes gives Io;
\* leading bytes 0x1F 0x8B give UnsupportedCompression("gzip") and leading
\* bytes "BZ" give UnsupportedCompression("bzip2"), whatever follows; any
\* other two leading bytes that are not "GH" give UnexpectedHeaderMagic; an
\* input that begins with "GH" and ends before its ninth byte gives Io; and an
\* input of nine bytes or more that begins with "GH" and not with the
\* signature gives UnexpectedHeaderMagic.  An input that begins with the
\* signature is never rejected with one of these two errors.
C11_HeaderClassified ==
    pc # "start" =>
        IF Len(bytes) < 2 THEN result = Err("Io", "read_exact")
        ELSE IF LeadsWith(GHW_GZIP_HEADER)
        THEN result = Err("UnsupportedCompression", "gzip")
        ELSE IF LeadsWith(GHW_BZIP2_HEADER)
        THEN result = Err("UnsupportedCompression", "bzip2")
        ELSE IF ~LeadsWith(<<71, 72>>)
        THEN result = Err("UnexpectedHeaderMagic", "read_ghw_header")
        ELSE IF Len(bytes) < Len(GHW_HEADER_START) THEN result = Err("Io", "read_exact")
        ELSE IF ~LeadsWith(GHW_HEADER_START)
        THEN result = Err("UnexpectedHeaderMagic", "read_ghw_header")
        ELSE result.what \notin {"UnexpectedHeaderMagic", "UnsupportedCompression"}

\* C11 witness: "BZ" followed by the rest of the signature is rejected as bzip2
C11_Witness ==
    /\ HeaderRejected
    /\ LeadsWith(GHW_BZIP2_HEADER \o SubSeq(GHW_HEADER_START, 3, 9))
    /\ result = Err("UnsupportedCompression", "bzip2")

\* C12 (as claimed): whatever the input and whatever read_ghw_header made of
\* it, the stream is at offset 0 after is_ghw, and two calls of is_ghw on
\* the same input give the same answer.
C12_ProbeRestoresCursor ==
    /\ pc = "start" => cursor = 0
    /\ \A i, j \in DOMAIN answers : answers[i] = answers[j]

\* the last 12 bytes of the input begin with the TAI tag
HasTailer ==
    /\ Len(bytes) >= GHW_TAILER_LEN
    /\ SubSeq(bytes, Len(bytes) - GHW_TAILER_LEN + 1, Len(bytes) - GHW_TAILER_LEN + 4)
           = GHW_TAILER_SECTION

\* C13 (as claimed): once the header is accepted, an input without a tailer,
\* or one on which the seek to the tailer fails, does not fail the load
\* before the main pass; and the main pass starts right after the 16 bytes
\* of the header.
C13_NoDirectoryNeverFails ==
    /\ header # None /\ (~seekable \/ ~HasTailer) => pc # "stop"
    /\ pc = "header" => cursor = 16

(***************************************************************************)
(* Properties of the string section (checked under SpecStrings).           *)
(***************************************************************************)
\* the count in the header of the string section of the input
Announced == ReadU32(header[1].big_endian, SubSeq(bytes, 25, 28)).val

\* C14 (as claimed): a string section that announces N entries gives a table
\* of N + 1 strings, "<anon>" first, one string for each of N entries read.
C14_TableHoldsAnnouncedStrings ==
    pc = "header" =>
        /\ Len(tables.strings) = Announced + 1
        /\ tables.strings[1] = Anon

\* the prefix length as claimed: 5 bits of every byte of the length, at the
\* shifts 0, 5, 10, ..., with no limit on the shift
RECURSIVE ClaimedLen(_, _, _, _, _)
ClaimedLen(bs, pos, c, len, shift) ==
    IF c < 128 THEN [ok |-> TRUE, len |-> len, pos |-> pos]
    ELSE IF pos >= Len(bs) THEN [ok |-> FALSE, len |-> 0, pos |-> pos]
    ELSE ClaimedLen(bs, pos + 1, bs[pos + 1],
             LET x == IF shift < 10 THEN (bs[pos + 1] % 32) * 2^shift
                      ELSE IF bs[pos + 1] % 32 # 0 THEN LenCap ELSE 0
             IN  IF len + x >= LenCap THEN LenCap ELSE len + x,
             IF shift < 10 THEN shift + 5 ELSE shift)

\* the first n strings as claimed, the buffer being b at position pos
RECURSIVE ClaimedStrings(_, _, _, _)
ClaimedStrings(bs, pos, b, n) ==
    IF n = 0 THEN <<>>
    ELSE LET chars == ReadChars(bs, pos, b)
             l == ClaimedLen(bs, chars.pos, chars.c, chars.c % 32, 5)
         IN  IF chars.res # Success \/ ~l.ok THEN <<>>
             ELSE <<Utf8Lossy(chars.buf)>>
                  \o ClaimedStrings(bs, l.pos, Truncate(chars.buf, l.len), n - 1)

\* C15 (as claimed): every decoded string is the retained prefix of the
\* buffer followed by the non-terminator bytes of its entry, the retained
\* prefix being the first min(L, |buffer|) bytes and L the number assembled
\* from the bytes of the length, 5 bits at a time at the shifts 0, 5, 10, ...;
\* and no decoded string holds a terminator byte.
C15_StringsSharePrefix ==
    pc \in {"string_entry", "header"} /\ result = Running =>
        /\ string_table = <<Anon>> \o ClaimedStrings(bytes, 32, <<>>, Len(string_table) - 1)
        /\ \A i \in DOMAIN string_table : \A j \in DOMAIN string_table[i] :
               ~IsTerminator(string_table[i][j])

(***************************************************************************)
(* Properties of the enum types (checked under SpecTypes).                 *)
(***************************************************************************)
\* the code of a literal as claimed: of its only character, or of the
\* character between two quotes
ClaimedCode(lit) ==
    IF Len(lit) = 1 THEN BitCharToNum(lit[1])
    ELSE IF lit = Q(lit[2]) THEN BitCharToNum(lit[2])
    ELSE None

\* nine literals, each with a code, the codes pairwise distinct
ClaimedNineValue(strings, lits) ==
    /\ Len(lits) = 9
    /\ \A i \in DOMAIN lits : ClaimedCode(GetStr(strings, lits[i])) # None
    /\ \A i, j \in DOMAIN lits :
           i # j => ClaimedCode(GetStr(strings, lits[i])) # ClaimedCode(GetStr(strings, lits[j]))

\* C16 (as claimed): an enum becomes NineValueBit exactly when it has nine
\* literals, each a single character or quote-character-quote whose character
\* is one of the nine symbols, with pairwise distinct codes; lut[i] is then
\* the code of literal i; any other enum becomes Enum with its literals.
C16_NineValueIffNineSymbols ==
    result = Running /\ table # <<>> /\ entry.kind = "TypeE8" =>
        table[Len(table)] =
            IF ClaimedNineValue(tables.strings, entry.lits)
            THEN NineValueBit(entry.name,
                     [i \in DOMAIN entry.lits |->
                         ClaimedCode(GetStr(tables.strings, entry.lits[i]))[1]])
            ELSE TEnum(entry.name, entry.lits)

(***************************************************************************)
(* Properties of the cycle section (checked under SpecSignals).            *)
(***************************************************************************)
\* C17 (as claimed): a 0 read as the first delta of a time step, the cursor
\* being 0, ends the load with FailedToParseSection("cycle"); so no time
\* step ends with the cursor at 0.
C17_LeadingZeroIsFatal ==
    pc = "cycle_time" => pos_signal_index # 0

\* C18: in a cycle section, as long as the load goes on, a non-zero delta d
\* moves the cursor to cursor + d and one value is read, for the slot at index
\* cursor - 1; a delta of 0 ends the time step and changes nothing else; a
\* negative time delta then ends the section, which fails unless the ECY mark
\* follows; a non-negative one is added to the time, sets the cursor to 0 and
\* starts the next time step.
C18_CycleSectionSteps ==
    [][ /\ pc = "cycle_signals" /\ result' = Running =>
             IF delta' = 0
             THEN pc' = "cycle_time" /\ UNCHANGED <<pos_signal_index, start_time, stdout>>
             ELSE /\ pc' = "cycle_signals"
                  /\ pos_signal_index' = pos_signal_index + delta'
                  /\ pos_signal_index' \in DOMAIN signals
                  /\ \E raw \in ByteVals :
                         stdout' = Append(stdout,
                             ValueLine(signals[pos_signal_index'].start_id,
                                       ReadSignalValue(signals[pos_signal_index'].tpe, raw).value))
                  /\ UNCHANGED start_time
        /\ pc = "cycle_time" /\ result' = Running =>
             IF time_delta' < 0
             THEN pc' = "signals" /\ UNCHANGED <<pos_signal_index, start_time, stdout>>
             ELSE /\ pc' = "cycle_signals"
                  /\ start_time' = start_time + time_delta'
                  /\ pos_signal_index' = 0
        /\ pc = "cycle_time" /\ result' # Running /\ time_delta' < 0 =>
             result' \in {Err("UnexpectedSection", "cycle"), Err("Io", "read_exact")}
      ]_vars

\* C18 witness: the second time step of a cycle section has read the values of
\* the slots at index 0 and index 1, one after the other
C18_Witness ==
    /\ result = Running /\ pc = "cycle_signals"
    /\ time_delta = 1 /\ start_time = 1
    /\ delta = 1 /\ pos_signal_index = 2
    /\ Len(stdout) = 4
    /\ stdout[3][1] = "val" /\ stdout[3][2] = signals[1].start_id
    /\ stdout[4][1] = "val" /\ stdout[4][2] = signals[2].start_id

(***************************************************************************)
(* Properties of the signal slots (checked under SpecHier and SpecHeader). *)
(***************************************************************************)
\* the signal handles of the variables added to the hierarchy
VarHandles(h) == { h.items[k][7] : k \in { n \in DOMAIN h.items : h.items[n][1] = "var" } }

\* C19: every allocated slot sits at the index of its handle, with start_id =
\* end_id = that index, type U8 and length 1; a step of the hierarchy section
\* never changes or frees an allocated slot, a handle that is read again
\* included; and while the load goes on the handle of every variable added
\* has its slot.
C19_OneSlotPerHandle ==
    [][ /\ \A i \in DOMAIN slots' :
               slots'[i] # None =>
                   /\ slots'[i] = Some(SignalInfo(i - 1, i - 1, "U8"))
                   /\ SignalInfoLen(slots'[i][1]) = 1
        /\ \A i \in DOMAIN slots : slots[i] # None => slots'[i] = slots[i]
        /\ result' = Running =>
               \A id \in VarHandles(hb') : id + 1 \in DOMAIN slots' /\ slots'[id + 1] # None
      ]_vars

\* C19 witness: two variables were added that read the same handle, and the
\* load goes on with one slot allocated and another one free
C19_Witness ==
    /\ result = Running
    /\ \E i, j \in DOMAIN hb.items :
           /\ i < j
           /\ hb.items[i][1] = "var" /\ hb.items[j][1] = "var"
           /\ hb.items[i][7] = hb.items[j][7]
           /\ slots[hb.items[i][7] + 1] # None
    /\ \E i \in 2..Len(slots) : slots[i] = None

\* C20 (as claimed): the slot list the hierarchy section returns is in
\* strictly ascending order of handles, and every handle attached to a
\* variable of the hierarchy lies within a slot of the list.
C20_EveryVarHandleHasSlot ==
    result = Running /\ pc \in {"header", "signals"} =>
        /\ \A i, j \in DOMAIN signals : i < j => signals[i].start_id < signals[j].start_id
        /\ \A id \in VarHandles(hb) :
               \E i \in DOMAIN signals : signals[i].start_id <= id /\ id <= signals[i].end_id

(***************************************************************************)
(* Properties of the framing of the sections (checked under SpecFrames).   *)
(***************************************************************************)
\* the step that reads the start of a section: where the loader is, the
\* name check_header_zeros is given, the bytes of the fixed-size header
ZeroedSections ==
    { <<"string_header", "string", 12>>, <<"type_header", "type", 8>>,
      <<"wkt_header", "well known types (WKT)", 4>>,
      <<"hier_header", "hierarchy", 16>>, <<"snapshot_header", "snapshot", 12>> }

\* the four bytes at position at are read in this step and, when one of them
\* is not zero, the step ends the load with FailedToParseSection
ZerosChecked(at) ==
    /\ cursor' >= at + 4
    /\ SubSeq(bytes, at + 1, at + 4) # <<0, 0, 0, 0>>
       => /\ pc' = "stop"
          /\ result'.kind = "err"
          /\ result'.what = "FailedToParseSection"

\* the mark at the stream position is EOH and the header pass reads it
AtEndOfHeader ==
    /\ pc = "header"
    /\ ReadExact(bytes, cursor, 4).ok
    /\ ReadExact(bytes, cursor, 4).data = GHW_END_OF_HEADER_SECTION

\* C21 as stated: after the tag of STR, TYP, WKT, HIE, SNP and EOH four
\* bytes are consumed whenever the input holds them, and a non-zero byte
\* among them fails the load with FailedToParseSection naming the section.
C21_ZerosAfterEveryTag ==
    [][ /\ \A s \in ZeroedSections :
             (pc = s[1] /\ Len(bytes) >= cursor + 4)
             => ZerosChecked(cursor) /\ (pc' = "stop" => result'.where = s[2])
        /\ (AtEndOfHeader /\ Len(bytes) >= cursor + 8) => ZerosChecked(cursor + 4)
      ]_vars

\* C21, amended: after the tag of STR, TYP, WKT, HIE and SNP, when the input
\* holds the whole fixed-size header of the section (12, 8, 4, 16 and 12
\* bytes), the header is consumed, and the load fails with
\* FailedToParseSection naming the section if and only if one of its first
\* four bytes is not zero.
C21_ZerosAfterHeaderTags ==
    [][ \A s \in ZeroedSections :
          (pc = s[1] /\ Len(bytes) >= cursor + s[3])
          => /\ cursor' = cursor + s[3]
             /\ (SubSeq(bytes, cursor + 1, cursor + 4) # <<0, 0, 0, 0>>)
                <=> (pc' = "stop" /\ result' = Err("FailedToParseSection", s[2]))
      ]_vars

\* a snapshot section after EOH whose 12 header bytes were read and whose
\* first four bytes are 0, 0, 0, 1: the load has failed on them
C21_Witness ==
    /\ result = Err("FailedToParseSection", "snapshot")
    /\ cursor = 36
    /\ SubSeq(bytes, 17, 28) = GHW_END_OF_HEADER_SECTION \o GHW_SNAPSHOT_SECTION
                                 \o <<0, 0, 0, 1>>

(***************************************************************************)
(* Properties of IntRange (checked under SpecRanges).                      *)
(***************************************************************************)
Abs(n) == IF n < 0 THEN -n ELSE n
MinOfEndpoints(rg) == IF rg[2] <= rg[3] THEN rg[2] ELSE rg[3]
MaxOfEndpoints(rg) == IF rg[2] <= rg[3] THEN rg[3] ELSE rg[2]

\* C22: for a range of either direction and any two endpoints, len returns
\* |hi - lo| + 1, which is at least 1, and is_subset_of tells whether the
\* inclusive interval [min endpoint, max endpoint] of self lies within that
\* of other.
C22_LenAndSubsetByEndpoints ==
    /\ (pc = "returned" /\ returned[1] = "len")
       => /\ returned[2] = Abs(range_self[3] - range_self[2]) + 1
          /\ returned[2] >= 1
    /\ (pc = "returned" /\ returned[1] = "is_subset_of")
       => returned[2] = (/\ MinOfEndpoints(range_self) >= MinOfEndpoints(range_other)
                         /\ MaxOfEndpoints(range_self) <= MaxOfEndpoints(range_other))

(***************************************************************************)
(* Properties of variables of composite type (checked under SpecVars).     *)
(***************************************************************************)
\* type id t of the type table is, behind its aliases, a type of this variant
IsOfVariant(tabs, t, variant) ==
    /\ t >= 1
    /\ TypeInBounds(tabs.types, t)
    /\ LookupConcreteType(FALSE, tabs.types, t).res = Success
    /\ LookupConcreteType(FALSE, tabs.types, t).tpe[1] = variant

\* what the hierarchy is to hold for a variable: for a record its scope and
\* then its fields one level deeper, in the order of the type; a leaf otherwise
RECURSIVE ClaimedItems(_, _, _, _)
RECURSIVE ClaimedFields(_, _, _, _)
ClaimedItems(tabs, name, t, depth) ==
    IF IsOfVariant(tabs, t, "Record")
    THEN <<<<"scope", name, "Module", depth>>>>
         \o ClaimedFields(tabs, LookupConcreteType(FALSE, tabs.types, t).tpe[3], 1, depth + 1)
    ELSE <<<<"var", name, depth>>>>
ClaimedFields(tabs, fields, i, depth) ==
    IF i > Len(fields) THEN <<>>
    ELSE ClaimedItems(tabs, GetStr(tabs.strings, fields[i][1]), fields[i][2], depth)
         \o ClaimedFields(tabs, fields, i + 1, depth)

\* an item of the hierarchy without what the claim does not speak of
ItemShape(it) == IF it[1] = "scope" THEN it ELSE <<"var", it[2], it[9]>>

VecRange(tabs, t) == LookupConcreteType(FALSE, tabs.types, t).tpe[4]

\* C24: a variable record whose type is NineValueVec(range) has range.len of
\* at least 1 and, when add_var accepts it, it has read exactly range.len
\* handles, every one of them has a slot, and one variable was added whose
\* bit width is range.len, whose index is (left, right) and whose handle is
\* the first one read.
C24_VectorReadsLenHandles ==
    [][ (pc = "hier_var" /\ IsOfVariant(tables, record.tpe, "NineValueVec"))
        => LET range == VecRange(tables, record.tpe)
               n == IntRangeLen(range)
           IN  /\ n >= 1
               /\ pc' = "hier_record"
                  => /\ Len(record.ids) - Len(record'.ids) = n
                     /\ record'.ids = SubSeq(record.ids, n + 1, Len(record.ids))
                     /\ \A i \in 1..n : slots'[record.ids[i] + 1] # None
                     /\ hb'.stack = hb.stack
                     /\ Len(hb'.items) = Len(hb.items) + 1
                     /\ SubSeq(hb'.items, 1, Len(hb.items)) = hb.items
                     /\ LET v == hb'.items[Len(hb'.items)]
                        IN  /\ v[1] = "var"
                            /\ v[5] = n
                            /\ v[6] = Some(<<range[2], range[3]>>)
                            /\ v[7] = record.ids[1]
      ]_vars

(***************************************************************************)
(* Properties of the cursor of read_cycle_signals (checked under           *)
(* SpecSignals).                                                           *)
(***************************************************************************)
\* C25: in a round of the loop of read_cycle_signals, a delta that moves the
\* cursor past the number of slots ends the load with an error value, and a
\* value is read only at a cursor whose slot exists.
C25_DeltaPastSlotsIsErrorValue ==
    [][ pc = "cycle_signals"
        => /\ (delta' > 0 /\ pos_signal_index + delta' > Len(signals))
              => (pc' = "stop" /\ result'.kind = "err")
           /\ (stdout' # stdout) => pos_signal_index' \in 1..Len(signals)
      ]_vars

(***************************************************************************)
(* C26  The type graph of a type section.                                  *)
(***************************************************************************)
\* the type ids an entry of the table refers to: the base of an alias, the
\* element of an array, the types of a record's fields
TypeRefs(t) ==
    CASE t[1] = "TypeAlias" -> {t[3]}
      [] t[1] = "Array"     -> {t[3]}
      [] t[1] = "Record"    -> {t[3][j][2] : j \in 1..Len(t[3])}
      [] OTHER              -> {}

\* the type ids an entry of the stream holds: the base of a subtype, the
\* element and the index types of an array, the types of a record's fields
EntryIds(e) ==
    CASE e.kind \in {"SubtypeScalar", "SubtypeArray"} -> {e.base}
      [] e.kind = "TypeArray" -> {e.elem} \cup {e.dims[j] : j \in 1..Len(e.dims)}
      [] e.kind = "TypeRecord" -> {e.fields[j][2] : j \in 1..Len(e.fields)}
      [] OTHER -> {}

RefersEarlier(types) ==
    \A i \in 1..Len(types) : TypeRefs(types[i]) \subseteq 1..(i - 1)

\* the length of the longest chain of references that starts at entry i
RECURSIVE TypeDepth(_, _)
TypeDepth(types, i) ==
    LET below == {TypeDepth(types, j) : j \in TypeRefs(types[i])} IN
    IF below = {} THEN 1
    ELSE 1 + (CHOOSE d \in below : \A e \in below : e <= d)

\* C26: every type id referenced inside an entry of a type section (an
\* alias base, an array element, a record field type) refers to an entry
\* strictly earlier in the same section, never to the entry itself or a
\* later one; so following the references from any entry ends after at
\* most as many steps as there are entries before it.  The ids of the
\* entry read last (the index types of an array and the base of a subtype
\* included) are those of entries that were in the table before it.
C26_TypeIdsReferEarlier ==
    /\ RefersEarlier(table)
    /\ RefersEarlier(tables.types)
    /\ \A i \in 1..Len(table) : TypeDepth(table, i) <= i
    /\ (pc = "type_entry" /\ entry # <<>>) => EntryIds(entry) \subseteq 1..(Len(table) - 1)

\* a record whose field names its own entry is refused, after entries that
\* refer to earlier ones were taken into the table
C26_Witness ==
    /\ pc = "stop"
    /\ result = Panic("index", "lookup_concrete_type_id")
    /\ entry.kind = "TypeRecord"
    /\ Len(entry.fields) = 1
    /\ entry.fields[1][2] = Len(table) + 1
    /\ \E i \in 2..Len(table) : TypeRefs(table[i]) # {} /\ TypeDepth(table, i) = 2

(***************************************************************************)
(* The load from the header pass to the tailer, byte by byte, on inputs    *)
(* that are read to their end: the loops of read_hierarchy,                *)
(* read_string_section, read_hierarchy_section, read_signals,              *)
(* read_cycle_section and read_cycle_signals.  The type section is not     *)
(* part of these inputs: the load starts with the tables of a string and a *)
(* type section read before the position the model starts at, or with      *)
(* empty tables, and bytes holds the 16 header bytes followed by the       *)
(* sections from that position on.                                         *)
(***************************************************************************)
MaxLoadFrames == 2  \* sections after the end of the header

GHW_END_SNAPSHOT_SECTION == <<69, 83, 78, 0>>
GHW_END_CYCLE_SECTION    == <<69, 67, 89, 0>>

\* the same loop with the end of the input reported as GhwParseError::Io
RECURSIVE Leb128LoopIo(_, _, _, _)
Leb128LoopIo(bs, pos, weight, acc) ==
    IF pos >= Len(bs)
    THEN [res |-> Err("Io", "read_exact"), val |-> 0, last |-> 0,
          weight |-> 0, pos |-> Len(bs)]
    ELSE LET b == bs[pos + 1]
             v == acc + (b % 128) * weight
         IN  IF b < 128
             THEN [res |-> Success, val |-> v, last |-> b, weight |-> weight * 128,
                   pos |-> pos + 1]
             ELSE Leb128LoopIo(bs, pos + 1, weight * 128, v)

\* the loop of leb128::read::unsigned and leb128::read::signed: seven bits a
\* byte, least significant first, until a byte without the continuation
\* bit; a read at the end of the input is leb128::read::Error::IoError,
\* which `?` turns into GhwParseError::FailedToParsLeb128.  The numbers of
\* the inputs are far shorter than the 64 bits at which the crate reports
\* an overflow.  [res, val, last, weight, pos]
RECURSIVE Leb128Loop(_, _, _, _)
Leb128Loop(bs, pos, weight, acc) ==
    IF pos >= Len(bs)
    THEN [res |-> Err("FailedToParsLeb128", "leb128"), val |-> 0, last |-> 0,
          weight |-> 0, pos |-> Len(bs)]
    ELSE LET b == bs[pos + 1]
             v == acc + (b % 128) * weight
         IN  IF b < 128
             THEN [res |-> Success, val |-> v, last |-> b, weight |-> weight * 128,
                   pos |-> pos + 1]
             ELSE Leb128Loop(bs, pos + 1, weight * 128, v)

\* leb128::read::unsigned: [res, val, pos]
Leb128Unsigned(bs, pos) ==
    LET r == Leb128Loop(bs, pos, 1, 0) IN [res |-> r.res, val |-> r.val, pos |-> r.pos]

\* leb128::read::signed: the sign bit of the last byte extends the number
Leb128Signed(bs, pos) ==
    LET r == Leb128Loop(bs, pos, 1, 0)
    IN  [res |-> r.res, pos |-> r.pos,
         val |-> IF r.res = Success /\ r.last >= 64 THEN r.val - r.weight ELSE r.val]

\* the element of a set of one element: the value of an expression, taken
\* once
The(S) == CHOOSE x \in S : TRUE

\* the numbers, n at most, that can be read one after the other from
\* position pos on
RECURSIVE Leb128Run(_, _, _)
Leb128Run(bs, pos, n) ==
    IF n = 0 THEN <<>>
    ELSE The({ IF r.res # Success THEN <<>> ELSE <<r>> \o Leb128Run(bs, r.pos, n - 1) :
               r \in {Leb128Unsigned(bs, pos)} })

\* GhwHierarchyKind::try_from_primitive
HierarchyKindOf(b) ==
    CASE b = 0  -> "End"
      [] b = 1  -> "Design"
      [] b = 3  -> "Block"
      [] b = 4  -> "GenerateIf"
      [] b = 5  -> "GenerateFor"
      [] b = 6  -> "Instance"
      [] b = 7  -> "Package"
      [] b = 13 -> "Process"
      [] b = 14 -> "Generic"
      [] b = 15 -> "EndOfScope"
      [] b = 16 -> "Signal"
      [] b = 17 -> "PortIn"
      [] b = 18 -> "PortOut"
      [] b = 19 -> "PortInOut"
      [] b = 20 -> "Buffer"
      [] b = 21 -> "Linkage"
      [] OTHER  -> "Invalid"

\* what the reads of one record of the hierarchy section give
Decoded(r, rec, pos, run) == [res |-> r, rec |-> rec, pos |-> pos, run |-> run]

\* the reads of one iteration of the loop of read_hierarchy_section, in the
\* order the code makes them: the kind byte, the name (read_string_id), the
\* type (read_type_id) after get_str on the name of a variable, and for a
\* variable the handles that follow (run: where each of them ends; no
\* variable of the type table of these loads takes more than MaxHandles)
HierRecordAt(tabs, bs, pos) ==
    LET none == HierRecord("End", 0, 0, <<>>)
        handles(kind, name, tpe) ==
            The({ Decoded(Success,
                          HierRecord(kind, name.val, tpe.val,
                                     [i \in 1..Len(run) |-> run[i].val]),
                          tpe.pos, run) :
                  run \in {Leb128Run(bs, tpe.pos, MaxHandles)} })
        typed(kind, name) ==
            The({ IF tpe.res # Success THEN Decoded(tpe.res, none, tpe.pos, <<>>)
                  ELSE IF kind = "GenerateFor"
                  THEN Decoded(Success, HierRecord(kind, name.val, tpe.val, <<>>),
                               tpe.pos, <<>>)
                  ELSE handles(kind, name, tpe) :
                  tpe \in {Leb128Unsigned(bs, name.pos)} })
        named(kind, at) ==
            The({ IF name.res # Success THEN Decoded(name.res, none, name.pos, <<>>)
                  ELSE IF kind = "Process" \/ kind \in (ScopeKinds \ {"GenerateFor"})
                  THEN Decoded(Success, HierRecord(kind, name.val, 0, <<>>), name.pos, <<>>)
                  ELSE IF kind \in VarKinds /\ ~StrInBounds(tabs.strings, name.val)
                  THEN Decoded(Success, HierRecord(kind, name.val, 0, <<>>), name.pos, <<>>)
                  ELSE typed(kind, name) :
                  name \in {Leb128Unsigned(bs, at)} })
    IN  The({ IF ~k.ok THEN Decoded(Err("Io", "read_exact"), none, k.pos, <<>>)
              ELSE The({ IF kind \in {"End", "EndOfScope", "Design", "Invalid"}
                         THEN Decoded(Success, HierRecord(kind, 0, 0, <<>>), k.pos, <<>>)
                         ELSE named(kind, k.pos) :
                         kind \in {HierarchyKindOf(k.data[1])} }) :
              k \in {ReadExact(bs, pos, 1)} })

\* one iteration of the loop of read_hierarchy_section on the bytes
HierarchyRecordBytes ==
    /\ pc = "hier_record"
    /\ \E d \in {HierRecordAt(tables, bytes, cursor)} :
       \E st \in {HierStep(debug, tables, hb, slots, num_declared_vars,
                           expected_num_declared_vars, d.rec)} :
       \E taken \in {IF d.rec.kind \in VarKinds
                     THEN Len(d.rec.ids)
                            - Len(ReadHierarchyVar(debug, tables, slots, hb, d.rec).ids)
                     ELSE 0} :
           IF d.res # Success
           THEN /\ cursor' = d.pos
                /\ Stop(d.res)
                /\ UNCHANGED <<hb, slots, num_declared_vars, signals>>
           ELSE /\ cursor' = IF st.res = Err("FailedToParsLeb128", "read_signal_id")
                             THEN Len(bytes)
                             ELSE IF taken = 0 THEN d.pos ELSE d.run[taken].pos
                /\ hb' = st.hb
                /\ slots' = st.slots
                /\ num_declared_vars' = st.num
                /\ IF st.res # Success
                   THEN Stop(st.res) /\ UNCHANGED signals
                   ELSE IF ~st.done
                   THEN UNCHANGED <<pc, result, signals>>
                   ELSE IF debug /\ signals # <<>>
                   THEN Stop(Panic("debug_assert", "read_hierarchy")) /\ UNCHANGED signals
                   ELSE /\ signals' = Flatten(st.slots)
                        /\ pc' = "header"
                        /\ UNCHANGED result
    /\ UNCHANGED <<debug, bytes, seekable, header, answers, stringVars>>
    /\ UNCHANGED <<tables, consumed, input, typeVars, expected_num_declared_vars, signalVars>>
    /\ UNCHANGED <<rangeVars, record>>

\* read_snapshot_section after its header: a value for every physical id of
\* every slot (one byte each, the slots being U8), then the end mark
SnapshotValuesBytes ==
    /\ pc = "snapshot_values"
    /\ LET lp  == SnapshotLoop(signals, SubSeq(bytes, cursor + 1, Len(bytes)), 1, 0, <<>>)
           at  == cursor + Len(lp.lines)
           end == CheckMagicEnd(bytes, at, "snapshot", GHW_END_SNAPSHOT_SECTION)
       IN  /\ stdout' = stdout \o lp.lines
           /\ IF lp.res # Success THEN cursor' = at /\ Stop(lp.res)
              ELSE /\ cursor' = end.pos
                   /\ IF end.res # Success THEN Stop(end.res)
                      ELSE pc' = "signals" /\ UNCHANGED result
    /\ UNCHANGED <<debug, bytes, seekable, header, answers, stringVars>>
    /\ UNCHANGED <<headerVars, typeVars, hierVars>>
    /\ UNCHANGED <<start_time, pos_signal_index, delta, time_delta, encoder>>
    /\ UNCHANGED <<rangeVars, record>>

\* one iteration of the loop of read_cycle_signals on the bytes: the delta,
\* then the value of the slot it leads to
CycleSignalsBytes ==
    /\ pc = "cycle_signals"
    /\ LET d   == Leb128Unsigned(bytes, cursor)
           pos == Advance(pos_signal_index, d.val)
           v   == ReadExact(bytes, d.pos, 1)
       IN  IF d.res # Success
           THEN /\ cursor' = d.pos
                /\ Stop(d.res)
                /\ UNCHANGED <<delta, pos_signal_index, stdout>>
           ELSE /\ delta' = d.val
                /\ IF d.val = 0
                   THEN /\ cursor' = d.pos
                        /\ pc' = "cycle_time"
                        /\ UNCHANGED <<result, pos_signal_index, stdout>>
                   ELSE IF debug /\ AddOverflows(pos_signal_index, d.val)
                   THEN /\ cursor' = d.pos
                        /\ Stop(Panic("overflow", "read_cycle_signals"))
                        /\ UNCHANGED <<pos_signal_index, stdout>>
                   ELSE IF pos = 0
                   THEN /\ cursor' = d.pos
                        /\ Stop(Err("FailedToParseSection", "cycle"))
                        /\ pos_signal_index' = pos /\ UNCHANGED stdout
                   ELSE IF pos < 0 \/ pos - 1 >= Len(signals)
                   THEN /\ cursor' = d.pos
                        /\ Stop(Panic("index", "read_cycle_signals"))
                        /\ pos_signal_index' = pos /\ UNCHANGED stdout
                   ELSE /\ cursor' = v.pos
                        /\ pos_signal_index' = pos
                        /\ IF ~v.ok THEN Stop(Err("Io", "read_exact")) /\ UNCHANGED stdout
                           ELSE /\ stdout' = Append(stdout,
                                       ValueLine(signals[pos].start_id,
                                                 ReadSignalValue(signals[pos].tpe,
                                                                 v.data[1]).value))
                                /\ UNCHANGED <<pc, result>>
    /\ UNCHANGED <<debug, bytes, seekable, header, answers, stringVars>>
    /\ UNCHANGED <<headerVars, typeVars, hierVars>>
    /\ UNCHANGED <<start_time, time_delta, encoder>>
    /\ UNCHANGED <<rangeVars, record>>

\* the time delta after a time step on the bytes: a negative one ends the
\* section, which check_magic_end closes
CycleTimeBytes ==
    /\ pc = "cycle_time"
    /\ LET td  == Leb128Signed(bytes, cursor)
           end == CheckMagicEnd(bytes, td.pos, "cycle", GHW_END_CYCLE_SECTION)
       IN  IF td.res # Success
           THEN /\ cursor' = td.pos
                /\ Stop(td.res)
                /\ UNCHANGED <<time_delta, start_time, stdout, pos_signal_index>>
           ELSE /\ time_delta' = td.val
                /\ IF td.val < 0
                   THEN /\ cursor' = end.pos
                        /\ IF end.res # Success THEN Stop(end.res)
                           ELSE pc' = "signals" /\ UNCHANGED result
                        /\ UNCHANGED <<start_time, stdout, pos_signal_index>>
                   ELSE IF debug /\ AddOverflows(start_time, td.val)
                   THEN /\ cursor' = td.pos
                        /\ Stop(Panic("overflow", "read_cycle_section"))
                        /\ UNCHANGED <<start_time, stdout, pos_signal_index>>
                   ELSE /\ cursor' = td.pos
                        /\ start_time' = Advance(start_time, td.val)
                        /\ stdout' = Append(stdout, CycleLine(Advance(start_time, td.val)))
                        /\ pos_signal_index' = 0
                        /\ pc' = "cycle_signals"
                        /\ UNCHANGED result
    /\ UNCHANGED <<debug, bytes, seekable, header, answers, stringVars>>
    /\ UNCHANGED <<headerVars, typeVars, hierVars, delta, encoder>>
    /\ UNCHANGED <<rangeVars, record>>

\* the tables of the load at the position the model starts at
LoadTables == { t \in HierTables : (t.strings = <<>>) = (t.types = <<>>) }

\* what the inputs hold before the signal pass: the end of the header after
\* no section, a string section, a hierarchy section of one variable of
\* type std_ulogic, one of a block, a process and the end of the block, or
\* a string section and a hierarchy section
HeaderParts(big_endian) ==
    LET u(n) == U32Bytes(big_endian, n)
        z    == <<0, 0, 0, 0>>
        str  == GHW_STRING_SECTION \o z \o u(0) \o z \o <<97, 0>>
        hie  == GHW_HIERARCHY_SECTION \o z \o u(1) \o u(1) \o u(1)
    IN  { GHW_END_OF_HEADER_SECTION,
          str \o GHW_END_OF_HEADER_SECTION,
          hie \o <<16, 12, 1, 1, 0>> \o GHW_END_OF_HEADER_SECTION,
          hie \o <<3, 12, 13, 12, 15, 0>> \o GHW_END_OF_HEADER_SECTION,
          str \o hie \o <<16, 1, 1, 1, 0>> \o GHW_END_OF_HEADER_SECTION }

\* the sections of the signal pass: a snapshot of no and of one value, a
\* cycle section of one time step and one of two, a directory, the tailer,
\* and four bytes that are no mark
SignalFrames(big_endian) ==
    LET u(n) == U32Bytes(big_endian, n)
        z    == <<0, 0, 0, 0>>
        t(n) == IF big_endian THEN z \o <<0, 0, 0, n>> ELSE <<n, 0, 0, 0>> \o z
    IN  { GHW_SNAPSHOT_SECTION \o z \o t(1) \o GHW_END_SNAPSHOT_SECTION,
          GHW_SNAPSHOT_SECTION \o z \o t(1) \o <<1>> \o GHW_END_SNAPSHOT_SECTION,
          GHW_CYCLE_SECTION \o t(2) \o <<1, 1, 0, 127>> \o GHW_END_CYCLE_SECTION,
          GHW_CYCLE_SECTION \o t(0) \o <<0, 1, 1, 0, 0, 127>> \o GHW_END_CYCLE_SECTION,
          GHW_DIRECTORY_SECTION \o z \o u(0) \o GHW_END_DIRECTORY_SECTION,
          GHW_TAILER_SECTION,
          <<88, 88, 88, 0>> }

\* a head of 16 bytes, a header part and up to max_frames sections of the
\* signal pass, whole or without its last 1, 5 or 6 bytes
LoadFiles(max_frames) ==
    LET head(e) == GHW_HEADER_START \o <<16, 0, 1, e, 4, 0, 0>>
        tails(e) == UNION { [1..n -> SignalFrames(e = 2)] : n \in 0..max_frames }
        cut(f, k) == SubSeq(f, 1, Len(f) - k)
    IN  UNION { { cut(head(e) \o h \o Concat(p), k) :
                    h \in HeaderParts(e = 2), p \in tails(e), k \in {0, 1, 5, 6} } :
                  e \in {1, 2} }

InitLoad ==
    /\ debug \in BOOLEAN
    /\ bytes \in LoadFiles(MaxLoadFrames)
    /\ seekable = TRUE
    /\ cursor = 16
    /\ header = ReadGhwHeader(bytes, 0).data
    /\ answers = <<>>
    /\ pc = "header"
    /\ result = Running
    /\ tables \in LoadTables
    /\ consumed = <<>> /\ input = <<>> /\ signals = <<>>
    /\ IdleStrings /\ IdleTypes /\ IdleHier /\ IdleSignal /\ IdleRanges /\ IdleRecord

NextLoad ==
    \/ ReadHeaderMark
    \/ ReadStringHeader \/ ReadStringEntry \/ EndStringSection
    \/ HierarchySectionHeader \/ HierarchyRecordBytes
    \/ ReadSignalMark
    \/ SnapshotSectionHeader \/ SnapshotValuesBytes
    \/ CycleSectionHeader \/ CycleSignalsBytes \/ CycleTimeBytes

\* the load is one sequential call: a step that can be taken is taken
SpecLoad == InitLoad /\ [][NextLoad]_vars /\ WF_vars(NextLoad)

(***************************************************************************)
(* C27  Termination of the load.                                           *)
(***************************************************************************)
Terminated == pc \in {"stop", "done"}

\* read_string_section has read its last string and returns without a read
StringsRead == pc = "string_entry" /\ Len(string_table) = string_num + 1

\* the bytes the input holds after the position of the stream
BytesLeft == Len(bytes) - cursor

\* the bytes left hold no byte that ends a LEB128 number
NoNumberLeft == \A i \in (cursor + 1)..Len(bytes) : bytes[i] >= 128

\* the next step begins with a LEB128 number
NumberNext == pc \in {"cycle_signals", "cycle_time"}

\* the input ends before the read the next step begins with is complete: a
\* mark, the fixed-size header of a section, the byte of a string, the kind
\* byte of a hierarchy record, the values and the end mark of a snapshot,
\* the number a cycle step begins with
RunsOut ==
    CASE pc \in {"header", "signals"}                 -> BytesLeft < 4
      [] pc \in {"string_header", "snapshot_header"} -> BytesLeft < 12
      [] pc = "hier_header"                           -> BytesLeft < 16
      [] pc = "cycle_header"                          -> BytesLeft < 8
      [] pc = "string_entry"                          -> ~StringsRead /\ BytesLeft < 1
      [] pc = "hier_record"                           -> BytesLeft < 1
      [] pc = "snapshot_values"                       -> BytesLeft < Len(signals) + 4
      [] NumberNext                                   -> NoNumberLeft
      [] OTHER                                        -> FALSE

\* every step that goes on, the return of read_string_section apart, has
\* moved the position of the stream forward
EveryStepConsumes ==
    [][(pc' # "stop" /\ ~StringsRead) => cursor' > cursor]_vars

\* Ok is returned right after the four bytes of the TAI mark, and only then
SuccessOnlyOnTailer ==
    [](/\ result = Success <=> pc = "done"
       /\ pc = "done" => /\ cursor >= 4
                         /\ SubSeq(bytes, cursor - 3, cursor) = GHW_TAILER_SECTION)

====
